---- MODULE Spec2Model ----
(***************************************************************************)
(* Verification model of the nove body-fitting backend.                    *)
(*                                                                         *)
(*  - the service helpers of backend/src/services (body type, dress size,  *)
(*    silhouette recommendations) and the ratio classifiers of             *)
(*    backend/measurement, as operators applied by single-step actions;    *)
(*  - the hierarchical pose solver (anny_pose_solver.py);                  *)
(*  - the fit pipeline ANNYBodyAnalyzer.analyze_from_vertices and the      *)
(*    lazily loaded template-model handle (anny_integration.py).           *)
(*                                                                         *)
(* Lengths given in inches are held in half-inches (Inches(n) = 2n) so the *)
(* size chart's .5 thresholds are integers; scores and phenotype values    *)
(* are held in hundredths.                                                 *)
(***************************************************************************)
EXTENDS Integers, Sequences, FiniteSets, TLC

VARIABLES
    bust, waist, hips,      \* service inputs, half-inches
    body_types,             \* result of each classifier, "none" before its call
    dress_size,             \* result of calculate_dress_size, -1 before its call
    body_type, limit,       \* inputs of get_silhouette_recommendations
    recommendations,        \* its result; [called |-> FALSE] before the call
    bone_labels,            \* the template's bone label set
    source_joints,          \* template (rest pose) joints: name -> position
    target_joints,          \* extracted target joints: name -> position
    rotations,              \* compute_pose: bone -> local rotation vector
    world_rotations,        \* compute_pose: bone -> accumulated global delta
    pose_pc, pose_i,        \* position in compute_pose and in its chain loop
    pose_error,             \* exception raised by the pose solve, "none" if none
    pose_params,            \* _apply_pose_to_anny: bone -> applied rotation
    analyzers,              \* the ANNYBodyAnalyzer objects constructed so far
    models_created,         \* calls of create_fullbody_model in this process
    body_analyzer,          \* BodyAnalyzer._anny_analyzer: index, 0 for None
    fit,                    \* the running analyze_from_vertices invocation
    icp,                    \* the running _icp_align invocation
    prep,                   \* input preparation of a fit: arrays and joint sets
    geo,                    \* the running _extract_joint_positions, legs part
    anchor,                 \* the pelvis anchor of the mesh normalisation
    circ,                   \* the running _measure_circumference call
    tryon                   \* one try-on request and its workflow run

svcVars == <<bust, waist, hips, body_types, dress_size, body_type, limit, recommendations>>

poseVars == <<bone_labels, source_joints, target_joints, rotations, world_rotations,
              pose_pc, pose_i, pose_error, pose_params>>

fitVars == <<analyzers, models_created, body_analyzer, fit>>

icpVars == <<icp>>

prepVars == <<prep>>

geoVars == <<geo>>

anchorVars == <<anchor>>

circVars == <<circ>>

tryonVars == <<tryon>>

vars == <<svcVars, poseVars, fitVars, icpVars, prepVars,
          geoVars, anchorVars, circVars, tryonVars>>

----------------------------------------------------------------------------
(* Units *)

Inches(n) == 2 * n

----------------------------------------------------------------------------
(* Body-type classifiers *)

HOURGLASS == "hourglass"
PEAR == "pear"
APPLE == "apple"
RECTANGLE == "rectangle"
INVERTED_TRIANGLE == "inverted_triangle"

BodyType == {HOURGLASS, PEAR, APPLE, RECTANGLE, INVERTED_TRIANGLE}

Abs(x) == IF x < 0 THEN -x ELSE x

Min2(a, b) == IF a <= b THEN a ELSE b

Max2(a, b) == IF a >= b THEN a ELSE b

\* Variant: the pear test without its 3-inch margin.
classify_body_type_no_margin(b, w, h) ==
    LET bust_hip_diff == Abs(b - h)
        waist_diff == Min2(b, h) - w
    IN  IF bust_hip_diff <= Inches(1) /\ waist_diff >= Inches(9) THEN HOURGLASS
        ELSE IF h > b THEN PEAR
        ELSE IF w >= h - Inches(2) THEN APPLE
        ELSE IF b > h + Inches(3) THEN INVERTED_TRIANGLE
        ELSE RECTANGLE

\* services/body_type.py: difference rules, tested in this order.
classify_body_type(b, w, h) ==
    LET bust_hip_diff == Abs(b - h)
        waist_diff == Min2(b, h) - w
    IN  IF bust_hip_diff <= Inches(1) /\ waist_diff >= Inches(9) THEN HOURGLASS
        ELSE IF h > b + Inches(3) THEN PEAR
        ELSE IF w >= h - Inches(2) THEN APPLE
        ELSE IF b > h + Inches(3) THEN INVERTED_TRIANGLE
        ELSE RECTANGLE

\* scripts/test_anny_fitting.py: the same difference rules as an elif chain.
script_classify_body_type(b, w, h) ==
    LET bust_hip_diff == Abs(b - h)
        waist_diff == Min2(b, h) - w
    IN  IF bust_hip_diff <= Inches(1) /\ waist_diff >= Inches(9) THEN HOURGLASS
        ELSE IF h > b + Inches(3) THEN PEAR
        ELSE IF w >= h - Inches(2) THEN APPLE
        ELSE IF b > h + Inches(3) THEN INVERTED_TRIANGLE
        ELSE RECTANGLE

\* A ratio n/d compared with a decimal c/10: the float quotient of two small
\* integers compares with the literal exactly as the fractions do, and the
\* guard "x / d if d > 0 else 1.0" yields 10/10 when d is not positive.
RatioLt(n, d, c) == IF d > 0 THEN 10 * n < c * d ELSE 10 < c

RatioGt(n, d, c) == IF d > 0 THEN 10 * n > c * d ELSE 10 > c

RatioLe(n, d, c) == ~RatioGt(n, d, c)

RatioGe(n, d, c) == ~RatioLt(n, d, c)

\* measurement/anthropometry.py: ratio rules.
anthropometry_classify_body_type(b, w, h) ==
    IF RatioGe(b, h, 9) /\ RatioLe(b, h, 11) /\ RatioLt(w, b, 8) THEN HOURGLASS
    ELSE IF RatioLt(b, h, 9) THEN PEAR
    ELSE IF RatioGt(b, h, 11) THEN INVERTED_TRIANGLE
    ELSE IF RatioGt(b, h, 10) /\ RatioGt(w, b, 8) THEN APPLE
    ELSE RECTANGLE

\* measurement/pose_measurement.py: the same ratio rules as an elif chain.
PoseMeasurement_classify_body_type(b, w, h) ==
    IF RatioGe(b, h, 9) /\ RatioLe(b, h, 11) /\ RatioLt(w, b, 8) THEN HOURGLASS
    ELSE IF RatioLt(b, h, 9) THEN PEAR
    ELSE IF RatioGt(b, h, 11) THEN INVERTED_TRIANGLE
    ELSE IF RatioGt(b, h, 10) /\ RatioGt(w, b, 8) THEN APPLE
    ELSE RECTANGLE

Classifiers == {"services", "script", "anthropometry", "pose_measurement"}

Classify(c, b, w, h) ==
    CASE c = "services" -> classify_body_type(b, w, h)
      [] c = "script" -> script_classify_body_type(b, w, h)
      [] c = "anthropometry" -> anthropometry_classify_body_type(b, w, h)
      [] c = "pose_measurement" -> PoseMeasurement_classify_body_type(b, w, h)

----------------------------------------------------------------------------
(* Dress size *)

\* services/sizing.py SIZE_CHART: (size, bust, waist, hips), half-inches.
SIZE_CHART ==
    << <<0, 65, 49, 71>>,
       <<2, 67, 51, 73>>,
       <<4, 69, 53, 75>>,
       <<6, 71, 55, 77>>,
       <<8, 73, 57, 79>>,
       <<10, 75, 59, 81>>,
       <<12, 78, 62, 84>>,
       <<14, 82, 66, 88>>,
       <<16, 86, 70, 92>>,
       <<18, 90, 74, 96>>,
       <<20, 94, 78, 100>>,
       <<22, 98, 82, 104>>,
       <<24, 102, 86, 108>> >>

\* Columns of a chart row: Python index k is TLA+ index k + 1.
Col(row, measurement_index) == row[measurement_index + 1]

\* The for loop of _find_size_for_measurement from row i on.
RECURSIVE FindFrom(_, _, _)
FindFrom(i, value, measurement_index) ==
    IF i > Len(SIZE_CHART) THEN Col(SIZE_CHART[Len(SIZE_CHART)], 0)
    ELSE IF value <= Col(SIZE_CHART[i], measurement_index)
         THEN Col(SIZE_CHART[i], 0)
         ELSE FindFrom(i + 1, value, measurement_index)

\* Variant: thresholds exclusive.
_find_size_for_measurement_strict(value, measurement_index) ==
    FindFrom(1, value + 1, measurement_index)

\* Variant: a value above every threshold falls back to the first row.
_find_size_for_measurement_wrap(value, measurement_index) ==
    IF value > Col(SIZE_CHART[Len(SIZE_CHART)], measurement_index)
    THEN Col(SIZE_CHART[1], 0)
    ELSE FindFrom(1, value, measurement_index)

_find_size_for_measurement(value, measurement_index) ==
    FindFrom(1, value, measurement_index)

calculate_dress_size(b, w, h) ==
    LET bust_size == _find_size_for_measurement(b, 1)
        waist_size == _find_size_for_measurement(w, 2)
        hip_size == _find_size_for_measurement(h, 3)
    IN  Max2(Max2(bust_size, waist_size), hip_size)

----------------------------------------------------------------------------
(* Silhouette recommendations *)

BALLGOWN == "ballgown"
A_LINE == "a-line"
MERMAID == "mermaid"
SHEATH == "sheath"
EMPIRE == "empire"
FIT_AND_FLARE == "fit-and-flare"
BOHEMIAN == "bohemian"

Rec(s, sc) == [silhouette |-> s, score |-> sc]

\* services/silhouette.py SILHOUETTE_MATRIX; scores in hundredths, the
\* free-text reason of each row is left out.
SILHOUETTE_MATRIX ==
    [t \in BodyType |->
        CASE t = HOURGLASS ->
               << Rec(MERMAID, 95), Rec(SHEATH, 90), Rec(FIT_AND_FLARE, 88),
                  Rec(A_LINE, 82), Rec(BALLGOWN, 75) >>
          [] t = PEAR ->
               << Rec(A_LINE, 95), Rec(BALLGOWN, 92), Rec(EMPIRE, 85),
                  Rec(FIT_AND_FLARE, 78), Rec(BOHEMIAN, 75) >>
          [] t = APPLE ->
               << Rec(EMPIRE, 95), Rec(A_LINE, 92), Rec(BALLGOWN, 85),
                  Rec(BOHEMIAN, 80), Rec(SHEATH, 65) >>
          [] t = RECTANGLE ->
               << Rec(BALLGOWN, 95), Rec(MERMAID, 90), Rec(FIT_AND_FLARE, 88),
                  Rec(A_LINE, 82), Rec(SHEATH, 75) >>
          [] t = INVERTED_TRIANGLE ->
               << Rec(A_LINE, 95), Rec(BALLGOWN, 92), Rec(FIT_AND_FLARE, 85),
                  Rec(BOHEMIAN, 78), Rec(EMPIRE, 72) >> ]

\* Python's lst[:n]: the first n items, or all but the last -n when n < 0.
SliceTo(lst, n) ==
    LET stop == IF n >= 0 THEN Min2(n, Len(lst)) ELSE Max2(Len(lst) + n, 0)
    IN  SubSeq(lst, 1, stop)

\* Variant: the slice keeps one entry too many.
get_silhouette_recommendations_one_more(t, lim) ==
    LET recs == IF t \in DOMAIN SILHOUETTE_MATRIX THEN SILHOUETTE_MATRIX[t] ELSE << >>
    IN  SliceTo(recs, lim + 1)

get_silhouette_recommendations(t, lim) ==
    LET recs == IF t \in DOMAIN SILHOUETTE_MATRIX THEN SILHOUETTE_MATRIX[t] ELSE << >>
    IN  SliceTo(recs, lim)

----------------------------------------------------------------------------
(* Vectors and rotations                                                   *)
(*                                                                         *)
(* Joint positions are integer lattice points and every bone vector of the *)
(* poses below is axis-parallel or zero, so unit directions, cross         *)
(* products and the rotations between them are exact: the rotations are    *)
(* the lattice rotations by 0, 90 or 180 degrees.  Rotation vectors are    *)
(* held in units of pi/4 (90 degrees = 2, 180 degrees = 4).  A float NaN   *)
(* is the sentinel vector NaNVec / matrix NaNMat.                          *)

Vec(x, y, z) == <<x, y, z>>

ZeroVec == <<0, 0, 0>>

NaNVec == <<-99, -99, -99>>

VSub(a, b) == <<a[1] - b[1], a[2] - b[2], a[3] - b[3]>>

VScale(k, a) == <<k * a[1], k * a[2], k * a[3]>>

Dot(a, b) == a[1] * b[1] + a[2] * b[2] + a[3] * b[3]

Cross(a, b) ==
    << a[2] * b[3] - a[3] * b[2],
       a[3] * b[1] - a[1] * b[3],
       a[1] * b[2] - a[2] * b[1] >>

Sgn(x) == IF x > 0 THEN 1 ELSE IF x < 0 THEN -1 ELSE 0

AxisParallel(v) == Cardinality({i \in 1..3 : v[i] # 0}) <= 1

\* v / (norm(v) + 1e-8) for an axis-parallel or zero v: the unit axis, or zero.
UnitDir(v) == <<Sgn(v[1]), Sgn(v[2]), Sgn(v[3])>>

\* np.linalg.norm(v) < 1e-6 for a vector of unit directions' cross products.
NearZero(v) == v = ZeroVec

Identity == << <<1, 0, 0>>, <<0, 1, 0>>, <<0, 0, 1>> >>

NaNMat == <<NaNVec, NaNVec, NaNVec>>

MatVec(m, v) ==
    IF m = NaNMat \/ v = NaNVec THEN NaNVec
    ELSE <<Dot(m[1], v), Dot(m[2], v), Dot(m[3], v)>>

Transpose(m) ==
    IF m = NaNMat THEN NaNMat
    ELSE << <<m[1][1], m[2][1], m[3][1]>>,
            <<m[1][2], m[2][2], m[3][2]>>,
            <<m[1][3], m[2][3], m[3][3]>> >>

MatMul(a, b) ==
    IF a = NaNMat \/ b = NaNMat THEN NaNMat
    ELSE LET bt == Transpose(b)
         IN  << <<Dot(a[1], bt[1]), Dot(a[1], bt[2]), Dot(a[1], bt[3])>>,
                <<Dot(a[2], bt[1]), Dot(a[2], bt[2]), Dot(a[2], bt[3])>>,
                <<Dot(a[3], bt[1]), Dot(a[3], bt[2]), Dot(a[3], bt[3])>> >>

\* Rotation.from_rotvec(rv).as_matrix() for rv = angle * unit axis with
\* angle 0, 90 or 180 degrees (Rodrigues: c I + s [a]x + (1 - c) a a^T).
FromRotvec(rv) ==
    IF rv = NaNVec THEN NaNMat
    ELSE IF rv = ZeroVec THEN Identity
    ELSE LET a == UnitDir(rv)
             angle == Abs(rv[1]) + Abs(rv[2]) + Abs(rv[3])
             c == IF angle = 2 THEN 0 ELSE -1
             sn == IF angle = 2 THEN 1 ELSE 0
             K == << <<0, -a[3], a[2]>>, <<a[3], 0, -a[1]>>, <<-a[2], a[1], 0>> >>
         IN  [i \in 1..3 |-> [j \in 1..3 |->
                 c * Identity[i][j] + sn * K[i][j] + (1 - c) * a[i] * a[j]]]

Trace(m) == m[1][1] + m[2][2] + m[3][3]

\* Rotation.from_matrix(m).as_rotvec() for a lattice rotation by 0, 90 or 180
\* degrees, as the set of vectors it can return: the axis is read off the
\* antisymmetric part (90 degrees) or off the diagonal (180 degrees), where
\* its sign is decided by rounding residue and either sign can come out.
AsRotvec(m) ==
    IF m = NaNMat THEN {NaNVec}
    ELSE IF Trace(m) = 3 THEN {ZeroVec}
    ELSE IF Trace(m) = 1
         THEN {<<m[3][2] - m[2][3], m[1][3] - m[3][1], m[2][1] - m[1][2]>>}
         ELSE LET half_turn == <<2 * (m[1][1] + 1), 2 * (m[2][2] + 1), 2 * (m[3][3] + 1)>>
              IN  {half_turn, VScale(-1, half_turn)}

\* np.arctan2(y, x) in units of pi/4 for x = 0, y = 0 or |x| = |y|.
Arctan2(y, x) ==
    IF y = 0 THEN (IF x >= 0 THEN 0 ELSE 4)
    ELSE IF x = 0 THEN 2 * Sgn(y)
    ELSE IF x > 0 THEN Sgn(y) ELSE 3 * Sgn(y)

----------------------------------------------------------------------------
(* Hierarchical pose solver (services/anny_pose_solver.py)                 *)

JointNames ==
    {"pelvis", "hip_l", "hip_r", "knee_l", "knee_r", "ankle_l", "ankle_r",
     "shoulder_l", "shoulder_r", "elbow_l", "elbow_r", "wrist_l", "wrist_r",
     "neck", "head"}

NoParent == "None"

Chain(start, end, bone_name, parent_bone) ==
    [start |-> start, end |-> end, bone_name |-> bone_name, parent_bone |-> parent_bone]

\* compute_pose: chains = [(StartJoint, EndJoint, BoneName, ParentBoneName)].
chains ==
    << Chain("neck", "head", "neck01", NoParent),
       Chain("shoulder_l", "elbow_l", "upperarm01.L", NoParent),
       Chain("elbow_l", "wrist_l", "lowerarm01.L", "upperarm01.L"),
       Chain("shoulder_r", "elbow_r", "upperarm01.R", NoParent),
       Chain("elbow_r", "wrist_r", "lowerarm01.R", "upperarm01.R"),
       Chain("hip_l", "knee_l", "upperleg01.L", NoParent),
       Chain("knee_l", "ankle_l", "lowerleg01.L", "upperleg01.L"),
       Chain("hip_r", "knee_r", "upperleg01.R", NoParent),
       Chain("knee_r", "ankle_r", "lowerleg01.R", "upperleg01.R") >>

ChainBones == {chains[i].bone_name : i \in 1..Len(chains)}

\* _get_anny_joint_positions: joint_mapping, joint name -> template bone.
joint_mapping ==
    [j \in JointNames |->
        CASE j = "pelvis" -> "root"
          [] j = "hip_l" -> "pelvis.L"
          [] j = "hip_r" -> "pelvis.R"
          [] j = "knee_l" -> "lowerleg01.L"
          [] j = "knee_r" -> "lowerleg01.R"
          [] j = "ankle_l" -> "foot.L"
          [] j = "ankle_r" -> "foot.R"
          [] j = "shoulder_l" -> "shoulder01.L"
          [] j = "shoulder_r" -> "shoulder01.R"
          [] j = "elbow_l" -> "lowerarm01.L"
          [] j = "elbow_r" -> "lowerarm01.R"
          [] j = "wrist_l" -> "wrist.L"
          [] j = "wrist_r" -> "wrist.R"
          [] j = "neck" -> "neck01"
          [] j = "head" -> "head"]

\* The bone labels of the template rig that the fit refers to.
RigBones == {joint_mapping[j] : j \in JointNames} \cup ChainBones

\* _get_anny_joint_positions: a joint is reported when its bone is labelled.
_get_anny_joint_positions(labels, heads) ==
    [j \in {n \in JointNames : joint_mapping[n] \in labels} |-> heads[j]]

\* _solve_root_heading: yaw between the two hip-to-hip vectors, or no entry.
_solve_root_heading(rots, src, tgt) ==
    IF "hip_l" \notin DOMAIN src \/ "hip_r" \notin DOMAIN src THEN rots
    ELSE IF "hip_l" \notin DOMAIN tgt \/ "hip_r" \notin DOMAIN tgt THEN rots
    ELSE LET src_vec == VSub(src["hip_l"], src["hip_r"])
             tgt_vec == VSub(tgt["hip_l"], tgt["hip_r"])
             src_angle == Arctan2(src_vec[2], src_vec[1])
             tgt_angle == Arctan2(tgt_vec[2], tgt_vec[1])
             diff == tgt_angle - src_angle
         IN  [b \in DOMAIN rots \cup {"root"} |->
                 IF b = "root" THEN Vec(0, 0, diff) ELSE rots[b]]

IsLegBone(bone_name) ==
    bone_name \in {"upperleg01.L", "upperleg01.R", "lowerleg01.L", "lowerleg01.R"}

\* x * 0.5 for an even x.
Half(x) == Sgn(x) * (Abs(x) \div 2)

\* _apply_heuristics: leg bones keep flexion and halve twist and abduction.
_apply_heuristics(bone_name, rotvec) ==
    IF rotvec = NaNVec THEN NaNVec
    ELSE IF IsLegBone(bone_name)
         THEN <<rotvec[1], Half(rotvec[2]), Half(rotvec[3])>>
         ELSE rotvec

\* Variant: only the template's joints are tested for presence.
ChainSkipped_source_only(c, src, tgt) ==
    c.start \notin DOMAIN src \/ c.end \notin DOMAIN src

\* The guards at the top of the chain loop: the bone is skipped.
ChainSkipped(c, src, tgt) ==
    \/ c.start \notin DOMAIN src \/ c.end \notin DOMAIN src
    \/ c.start \notin DOMAIN tgt \/ c.end \notin DOMAIN tgt

\* A dictionary subscript on a missing key raises KeyError.
ChainKeyError(c, src, tgt) ==
    \/ c.start \notin DOMAIN src \/ c.end \notin DOMAIN src
    \/ c.start \notin DOMAIN tgt \/ c.end \notin DOMAIN tgt

\* Variant: only the first candidate axis is tried.
orthogonal_axis_first_only(current_dir) == Cross(current_dir, Vec(1, 0, 0))

\* The "opposite" branch: cross(current_dir, [1,0,0]), or
\* cross(current_dir, [0,1,0]) when the first has norm below 1e-6.
orthogonal_axis(current_dir) ==
    LET ortho == Cross(current_dir, Vec(1, 0, 0))
    IN  IF NearZero(ortho) THEN Cross(current_dir, Vec(0, 1, 0)) ELSE ortho

\* Variant: the parent's delta is never looked up.
parent_delta_ignored(c, world) == Identity

\* Step B: world_rotations[parent_bone] when the bone has a parent with an
\* entry, else np.eye(3).
parent_delta(c, world) ==
    IF c.parent_bone # NoParent /\ c.parent_bone \in DOMAIN world
    THEN world[c.parent_bone]
    ELSE Identity

\* Steps A-D of the loop body: the global rotation of the bone,
\* [rotvec |-> local_rotvec_global, delta |-> R_local_delta, world |-> ...].
SolveBone(c, src, tgt, world) ==
    LET src_dir == UnitDir(VSub(src[c.end], src[c.start]))
        tgt_dir == UnitDir(VSub(tgt[c.end], tgt[c.start]))
        R_parent_delta == parent_delta(c, world)
        current_dir == MatVec(R_parent_delta, src_dir)
        axis == Cross(current_dir, tgt_dir)
        ortho == orthogonal_axis(current_dir)
        local_rotvec_global ==
            IF current_dir = NaNVec THEN NaNVec
            ELSE IF NearZero(axis)
                 THEN IF Dot(current_dir, tgt_dir) > 0 THEN ZeroVec
                      ELSE IF ortho = ZeroVec THEN NaNVec   \* ortho /= 0
                      ELSE VScale(4, ortho)
                 ELSE VScale(2, axis)
        R_local_delta == FromRotvec(local_rotvec_global)
    IN  [rotvec |-> local_rotvec_global,
         delta |-> R_local_delta,
         world |-> MatMul(R_local_delta, R_parent_delta)]

\* Step E: the rotation in the bone's rest frame, R_rest.T @ R_local @ R_rest,
\* as the set of final rotation vectors the conversion can return.
LocalRotvec(bone_name, R_local_delta, rest_bone_poses) ==
    LET rest_global_rot == rest_bone_poses[bone_name]
        local_mat == MatMul(MatMul(Transpose(rest_global_rot), R_local_delta),
                            rest_global_rot)
    IN  {_apply_heuristics(bone_name, rv) : rv \in AsRotvec(local_mat)}

\* _apply_pose_to_anny: identity for every bone, overwritten by the entries
\* of bone_rotations whose bone is labelled and whose norm exceeds 1e-6.
_apply_pose_to_anny(labels, bone_rotations) ==
    [b \in labels |->
        IF /\ b \in DOMAIN bone_rotations
           /\ bone_rotations[b] # ZeroVec
           /\ bone_rotations[b] # NaNVec      \* norm(nan) > 1e-6 is False
        THEN bone_rotations[b]
        ELSE ZeroVec]

\* _create_anny_topology_target: the posed template, or the rest pose when
\* bone_rotations is empty.
PosedTemplate(labels, bone_rotations) ==
    IF DOMAIN bone_rotations # {}
    THEN _apply_pose_to_anny(labels, bone_rotations)
    ELSE [b \in labels |-> ZeroVec]

----------------------------------------------------------------------------
(* Template rest pose and target poses used as inputs of the pose solve    *)

\* Rest (T-pose) bone heads of the template, one lattice point per joint.
RestJoints ==
    [j \in JointNames |->
        CASE j = "pelvis" -> Vec(0, 0, 0)
          [] j = "hip_l" -> Vec(1, 0, 0)
          [] j = "hip_r" -> Vec(-1, 0, 0)
          [] j = "knee_l" -> Vec(1, 0, -2)
          [] j = "knee_r" -> Vec(-1, 0, -2)
          [] j = "ankle_l" -> Vec(1, 0, -4)
          [] j = "ankle_r" -> Vec(-1, 0, -4)
          [] j = "shoulder_l" -> Vec(1, 0, 3)
          [] j = "shoulder_r" -> Vec(-1, 0, 3)
          [] j = "elbow_l" -> Vec(3, 0, 3)
          [] j = "elbow_r" -> Vec(-3, 0, 3)
          [] j = "wrist_l" -> Vec(5, 0, 3)
          [] j = "wrist_r" -> Vec(-5, 0, 3)
          [] j = "neck" -> Vec(0, 0, 3)
          [] j = "head" -> Vec(0, 0, 4)]

Moved(base, changes) == [j \in DOMAIN base |-> IF j \in DOMAIN changes THEN changes[j] ELSE base[j]]

\* A rest pose whose right elbow coincides with the right shoulder.
RestDegenerate == Moved(RestJoints, "elbow_r" :> Vec(-1, 0, 3))

\* Arms down with forearms forward, left leg raised forward, right leg
\* raised sideways with the shin hanging, head forward.
PoseArmsDown ==
    Moved(RestJoints,
          "elbow_l" :> Vec(1, 0, 1) @@ "wrist_l" :> Vec(1, 2, 1) @@
          "elbow_r" :> Vec(-1, 0, 1) @@ "wrist_r" :> Vec(-1, 2, 1) @@
          "knee_l" :> Vec(1, 2, 0) @@ "ankle_l" :> Vec(1, 2, -2) @@
          "knee_r" :> Vec(-3, 0, 0) @@ "ankle_r" :> Vec(-3, 0, -2) @@
          "head" :> Vec(0, 1, 3))

\* Turned by half a turn, left arm and neck antiparallel to rest.
PoseTurned ==
    Moved(RestJoints,
          "hip_l" :> Vec(-1, 0, 0) @@ "hip_r" :> Vec(1, 0, 0) @@
          "knee_l" :> Vec(-1, 0, -2) @@ "ankle_l" :> Vec(-1, 0, -4) @@
          "knee_r" :> Vec(1, 2, 0) @@ "ankle_r" :> Vec(1, 2, 2) @@
          "elbow_l" :> Vec(-1, 0, 3) @@ "wrist_l" :> Vec(-3, 0, 3) @@
          "elbow_r" :> Vec(-1, 2, 3) @@ "wrist_r" :> Vec(-1, 4, 3) @@
          "head" :> Vec(0, 0, 2))

\* Left elbow on the left shoulder, right knee on the right hip.
PoseCollapsed ==
    Moved(RestJoints,
          "elbow_l" :> Vec(1, 0, 3) @@ "wrist_l" :> Vec(3, 0, 3) @@
          "knee_r" :> Vec(-1, 0, 0) @@ "ankle_r" :> Vec(-1, 0, -2))

\* (template rest pose, target pose) pairs the solver is run on.
PoseCases ==
    { <<RestJoints, PoseArmsDown>>, <<RestJoints, PoseTurned>>,
      <<RestDegenerate, PoseCollapsed>> }

RotX == << <<1, 0, 0>>, <<0, 0, -1>>, <<0, 1, 0>> >>

RotY == << <<0, 0, 1>>, <<0, 1, 0>>, <<-1, 0, 0>> >>

RotZ == << <<0, -1, 0>>, <<1, 0, 0>>, <<0, 0, 1>> >>

\* Rest-pose global orientation of each bone (get_rest_bone_poses[:, :3, :3]).
RestBonePoses ==
    [b \in RigBones |->
        CASE b \in {"upperarm01.L", "lowerarm01.L"} -> RotZ
          [] b \in {"upperarm01.R", "lowerarm01.R"} -> Transpose(RotZ)
          [] IsLegBone(b) -> MatMul(RotX, RotX)
          [] b = "neck01" -> RotY
          [] OTHER -> Identity]

\* What an input of the pose solve can lack: a joint of the template set, a
\* joint of the target set, or the label of a solved bone in the rig.
Missable ==
    ({"source", "target"} \X JointNames) \cup ({"label"} \X (ChainBones \cup {"root"}))

\* Subsets of S with at most k elements.
RECURSIVE AtMost(_, _)
AtMost(S, k) ==
    IF k = 0 THEN {{}}
    ELSE LET smaller == AtMost(S, k - 1)
         IN  smaller \cup {T \cup {x} : T \in smaller, x \in S}

\* At most MaxMissing items are missing from the inputs of one pose solve.
MaxMissing == 2

Present(kind, S, missing) == {x \in S : <<kind, x>> \notin missing}

----------------------------------------------------------------------------
(* The fit: phenotype records, initial estimate, fitter, measurement *)

PhenotypeNames == {"gender", "age", "height", "weight", "muscle", "proportions"}

Clip(x, lo, hi) == Max2(lo, Min2(x, hi))

\* Python truthiness of an optional number: None and 0 are both held as 0.
Truthy(x) == x # 0

\* Python truthiness of an optional string: None is held as "None".
TruthyStr(s) == s # "None" /\ s # ""

\* str.lower on the gender strings in use.
Lower(s) == IF s = "FEMALE" THEN "female" ELSE IF s = "MALE" THEN "male" ELSE s

NoCircumferences == [x \in {} |-> 0]

\* landmarks: height and circumferences in hundredths of a mesh unit,
\* user_height_cm in cm, the result in hundredths.
_estimate_initial_phenotypes(landmarks, user_height_cm, user_gender) ==
    LET circs == landmarks.circumferences
        Get(name) == IF name \in DOMAIN circs THEN circs[name] ELSE 0
        sum == Get("bust") + Get("waist") + Get("hips")
        mesh_height == landmarks.height
    IN  [gender |-> IF TruthyStr(user_gender) /\ Lower(user_gender) = "female"
                    THEN 100 ELSE 0,
         age |-> 40,
         height |-> IF Truthy(user_height_cm)
                    THEN Clip((user_height_cm - 150) * 2, 5, 95)
                    ELSE 50,
         weight |-> IF {"hips", "waist"} \subseteq DOMAIN circs /\ Truthy(user_height_cm)
                    THEN Clip(((sum * user_height_cm - 210 * mesh_height) * 100)
                                  \div (180 * mesh_height) + 30, 10, 95)
                    ELSE 50,
         muscle |-> 50,
         proportions |-> IF {"hips", "waist"} \subseteq DOMAIN circs /\ circs["hips"] > 0
                         THEN IF circs["waist"] * 100 < 75 * circs["hips"] THEN 60
                              ELSE IF circs["waist"] * 100 > 85 * circs["hips"] THEN 40
                              ELSE 50
                         ELSE 50]

excluded_phenotypes_with_gender(user_gender) == {"height", "muscle", "gender"}

\* excluded_phenotypes = ["height", "muscle"], plus "gender" under a hint.
excluded_phenotypes(user_gender) ==
    {"height", "muscle"} \cup (IF TruthyStr(user_gender) THEN {"gender"} ELSE {})

\* best_params: the fitter's phenotype_kwargs, field by field.
best_params_of(phenotype_kwargs) == [k \in DOMAIN phenotype_kwargs |-> phenotype_kwargs[k]]

RECURSIVE GCD(_, _)
GCD(a, b) == IF b = 0 THEN a ELSE GCD(b, a % b)

\* The calibration factor user_height_cm / (anny_height * 100) as a fraction
\* <<numerator, denominator>> in lowest terms; 1 without a user height.
calibration_scale(user_height_cm, anny_height) ==
    IF Truthy(user_height_cm)
    THEN LET g == GCD(user_height_cm, anny_height)
         IN  <<user_height_cm \div g, anny_height \div g>>
    ELSE <<1, 1>>

Scaled_per_metre(x, scale) == <<x * scale[1], 100>>

\* A measurement times the calibration factor, kept as an exact fraction
\* <<numerator, denominator>>; mass is multiplied by the cube of the factor.
Scaled(x, scale) == <<x * scale[1], scale[2]>>

ScaledCubed(x, scale) ==
    <<x * scale[1] * scale[1] * scale[1], scale[2] * scale[2] * scale[2]>>

FracEq(a, b) == a[1] * b[2] = b[1] * a[2]

confidence_of_unclamped_below(pve_mm) == Min2(100, 100 - 2 * pve_mm)

\* confidence = max(0.0, min(1.0, 1.0 - pve_mm / 50.0)), in hundredths.
confidence_of(pve_mm) == Max2(0, Min2(100, 100 - 2 * pve_mm))

\* Lazy creation of the template model on one analyzer object.

_ensure_model_loaded(analyzer, created) ==
    IF analyzer._model # 0
    THEN [analyzer |-> analyzer, created |-> created]
    ELSE [analyzer |-> [analyzer EXCEPT !._model = created + 1], created |-> created + 1]

NewAnalyzer == [_model |-> 0, _regressor |-> FALSE]

NoPhenotypes == [k \in PhenotypeNames |-> 0]

NoLandmarks == [height |-> 0, circumferences |-> NoCircumferences]

NoTemplate == [height |-> 0, bust |-> 0, waist |-> 0, hips |-> 0,
               mass |-> 0, bmi |-> 0]

NoResult == [height_cm |-> <<0, 1>>, bust_cm |-> <<0, 1>>,
             waist_cm |-> <<0, 1>>, hips_cm |-> <<0, 1>>,
             weight_kg |-> <<0, 1>>, bmi |-> 0,
             scale |-> <<0, 1>>, pve_mm |-> 0, confidence |-> 0,
             template |-> NoTemplate, measured_from |-> NoPhenotypes]

IdleFit ==
    [pc |-> "idle", analyzer |-> 0, n_vertices |-> 0, user_height_cm |-> 0,
     user_gender |-> "None", landmarks |-> NoLandmarks,
     pelvis_fallback |-> FALSE, excluded |-> {},
     initial_phenotypes |-> NoPhenotypes, coeffs_temp |-> FALSE,
     fitter_start |-> NoPhenotypes,
     best_params |-> NoPhenotypes, result |-> NoResult, error |-> "none"]

FitIdle ==
    /\ analyzers = << >>
    /\ models_created = 0
    /\ body_analyzer = 0
    /\ fit = IdleFit

\* np.mean(distances) when a distance is NaN.
NaNDistance == 0 - 1

IdleIcp == [pc |-> "idle", i |-> 0, mean_distance |-> NaNDistance, error |-> "none"]

IcpIdle == icp = IdleIcp

\* Arrays of one fit: the caller's, and those bound to local names.
CallerArrays == {"vertices", "faces", "keypoints_3d"}

LocalArrays ==
    {"transformed", "scaled_verts", "kp", "kp_ply_space", "kp_transformed", "kp_final"}

IdlePrep ==
    [pc |-> "idle", n_keypoints |-> 0, z_up |-> FALSE, scales |-> <<0, 0>>,
     bound |-> [a \in LocalArrays |-> "unbound"],
     writes |-> [a \in CallerArrays \cup LocalArrays |-> 0],
     sam3d_joints |-> << >>, anny_joints |-> << >>, sam3d_keypoints_all |-> << >>,
     error |-> "none"]

PrepIdle == prep = IdlePrep

IdleGeo ==
    [pc |-> "idle", pct |-> 0,
     body |-> [crotch_pct |-> 0, hole_from |-> 0, arms |-> "none", ankle_x |-> 0],
     arm_positions |-> [l |-> {}, r |-> {}],
     joints |-> << >>, from_loops |-> {}]

GeoIdle == geo = IdleGeo

NoSlice == [outcome |-> "none", loops |-> << >>]

IdleAnchor ==
    [pc |-> "idle", faces |-> FALSE, degenerate |-> FALSE,
     rough_center |-> <<0, 0>>, band_mean |-> <<"None">>, slice |-> NoSlice,
     pelvis_slice |-> NoSlice, mesh_pelvis |-> <<"None">>,
     offset |-> <<0, 0>>, error |-> "none"]

AnchorIdle == anchor = IdleAnchor

\* float("inf") as a squared distance <<numerator, denominator>>.
Infinity == <<1, 0>>

IdleCirc ==
    [pc |-> "idle", path_none |-> FALSE, loops |-> << >>, i |-> 0,
     best_loop_perim |-> 0, best_center_dist |-> Infinity, result |-> 0 - 1]

CircIdle == circ = IdleCirc

NoOutput == [success |-> "None", result_url |-> "None", error |-> "None"]

\* The TryOnRequest row as create_try_on stores it.
NewRequest ==
    [status |-> "PENDING", person_image_url |-> "", result_image_url |-> "None",
     error_message |-> "None"]

IdleTryon ==
    [pc |-> "idle", request |-> NewRequest, attempt |-> 0,
     dress_image_url |-> "None", try_on_result |-> NoOutput,
     output |-> NoOutput, raised_by |-> "none", propagated |-> FALSE]

TryonIdle == tryon = IdleTryon

----------------------------------------------------------------------------
(* Service calls: one call of one helper on inputs drawn at the start *)

\* Classifier inputs: whole inches from MinInches to MaxInches.
MinInches == 25
MaxInches == 41

ClassifierInputs == {Inches(k) : k \in MinInches..MaxInches}

\* Sizing inputs: every half-inch from just below the chart's first row to
\* MaxAbove half-inches above its last row, per column.
MaxAbove == 2

SizingInputs(measurement_index) ==
    (Col(SIZE_CHART[1], measurement_index) - 1)
        ..(Col(SIZE_CHART[Len(SIZE_CHART)], measurement_index) + MaxAbove)

\* Limits: -MaxNegLimit .. MaxLimit.
MaxNegLimit == 6
MaxLimit == 6

NoRecommendations == [called |-> FALSE, recs |-> << >>]

EmptyMap == [x \in {} |-> ZeroVec]

Put(f, k, v) == [x \in DOMAIN f \cup {k} |-> IF x = k THEN v ELSE f[x]]

Restrict(f, S) == [x \in DOMAIN f \cap S |-> f[x]]

PoseIdle ==
    /\ bone_labels = RigBones
    /\ source_joints = EmptyMap
    /\ target_joints = EmptyMap
    /\ rotations = EmptyMap
    /\ world_rotations = EmptyMap
    /\ pose_pc = "idle"
    /\ pose_i = 1
    /\ pose_error = "none"
    /\ pose_params = EmptyMap

SvcIdle ==
    /\ body_types = [c \in Classifiers |-> "none"]
    /\ dress_size = -1
    /\ recommendations = NoRecommendations

InitClassify ==
    /\ bust \in ClassifierInputs
    /\ waist \in ClassifierInputs
    /\ hips \in ClassifierInputs
    /\ body_type = HOURGLASS
    /\ limit = 5
    /\ SvcIdle
    /\ PoseIdle
    /\ FitIdle
    /\ IcpIdle
    /\ PrepIdle
    /\ GeoIdle /\ AnchorIdle /\ CircIdle /\ TryonIdle

CallClassifier(c) ==
    /\ body_types[c] = "none"
    /\ body_types' = [body_types EXCEPT ![c] = Classify(c, bust, waist, hips)]
    /\ UNCHANGED <<bust, waist, hips, dress_size, body_type, limit, recommendations>>
    /\ UNCHANGED <<poseVars, fitVars, icpVars, prepVars, geoVars, anchorVars, circVars, tryonVars>>

ClassifyServices == CallClassifier("services")

ClassifyScript == CallClassifier("script")

ClassifyAnthropometry == CallClassifier("anthropometry")

ClassifyPoseMeasurement == CallClassifier("pose_measurement")

NextClassify ==
    \/ ClassifyServices
    \/ ClassifyScript
    \/ ClassifyAnthropometry
    \/ ClassifyPoseMeasurement

SpecClassify == InitClassify /\ [][NextClassify]_vars

InitSizing ==
    /\ bust \in SizingInputs(1)
    /\ waist \in SizingInputs(2)
    /\ hips \in SizingInputs(3)
    /\ body_type = HOURGLASS
    /\ limit = 5
    /\ SvcIdle
    /\ PoseIdle
    /\ FitIdle
    /\ IcpIdle
    /\ PrepIdle
    /\ GeoIdle /\ AnchorIdle /\ CircIdle /\ TryonIdle

CalculateDressSize ==
    /\ dress_size = -1
    /\ dress_size' = calculate_dress_size(bust, waist, hips)
    /\ UNCHANGED <<bust, waist, hips, body_types, body_type, limit, recommendations>>
    /\ UNCHANGED <<poseVars, fitVars, icpVars, prepVars, geoVars, anchorVars, circVars, tryonVars>>

NextSizing == CalculateDressSize

SpecSizing == InitSizing /\ [][NextSizing]_vars

InitSilhouette ==
    /\ body_type \in BodyType
    /\ limit \in (0 - MaxNegLimit)..MaxLimit
    /\ bust = Inches(MinInches)
    /\ waist = Inches(MinInches)
    /\ hips = Inches(MinInches)
    /\ SvcIdle
    /\ PoseIdle
    /\ FitIdle
    /\ IcpIdle
    /\ PrepIdle
    /\ GeoIdle /\ AnchorIdle /\ CircIdle /\ TryonIdle

GetSilhouetteRecommendations ==
    /\ ~recommendations.called
    /\ recommendations' =
         [called |-> TRUE, recs |-> get_silhouette_recommendations(body_type, limit)]
    /\ UNCHANGED <<bust, waist, hips, body_types, dress_size, body_type, limit>>
    /\ UNCHANGED <<poseVars, fitVars, icpVars, prepVars, geoVars, anchorVars, circVars, tryonVars>>

NextSilhouette == GetSilhouetteRecommendations

SpecSilhouette == InitSilhouette /\ [][NextSilhouette]_vars

----------------------------------------------------------------------------
(* The pose solve: compute_pose step by step, then _apply_pose_to_anny *)

SvcUnused ==
    /\ bust = Inches(MinInches)
    /\ waist = Inches(MinInches)
    /\ hips = Inches(MinInches)
    /\ body_type = HOURGLASS
    /\ limit = 5
    /\ SvcIdle

InitPose ==
    /\ SvcUnused
    /\ FitIdle
    /\ IcpIdle
    /\ PrepIdle
    /\ GeoIdle /\ AnchorIdle /\ CircIdle /\ TryonIdle
    /\ \E pc \in PoseCases, missing \in AtMost(Missable, MaxMissing) :
          /\ bone_labels = Present("label", RigBones, missing)
          /\ source_joints =
                Restrict(_get_anny_joint_positions(RigBones, pc[1]),
                         Present("source", JointNames, missing))
          /\ target_joints = Restrict(pc[2], Present("target", JointNames, missing))
    /\ rotations = EmptyMap
    /\ world_rotations = EmptyMap
    /\ pose_pc = "root"
    /\ pose_i = 1
    /\ pose_error = "none"
    /\ pose_params = EmptyMap

\* compute_pose step 1.
SolveRootHeading ==
    /\ pose_pc = "root"
    /\ rotations' = _solve_root_heading(rotations, source_joints, target_joints)
    /\ pose_pc' = "chains"
    /\ UNCHANGED <<bone_labels, source_joints, target_joints, world_rotations,
                   pose_i, pose_error, pose_params>>
    /\ UNCHANGED <<svcVars, fitVars, icpVars, prepVars, geoVars, anchorVars, circVars, tryonVars>>

\* One iteration of the chain loop that hits a "continue".
SkipChain ==
    /\ pose_pc = "chains"
    /\ pose_i <= Len(chains)
    /\ ChainSkipped(chains[pose_i], source_joints, target_joints)
    /\ pose_i' = pose_i + 1
    /\ UNCHANGED <<bone_labels, source_joints, target_joints, rotations,
                   world_rotations, pose_pc, pose_error, pose_params>>
    /\ UNCHANGED <<svcVars, fitVars, icpVars, prepVars, geoVars, anchorVars, circVars, tryonVars>>

\* One iteration of the chain loop that solves its bone.  A NaN matrix handed
\* to Rotation.from_matrix either raises or comes back as a NaN vector,
\* depending on the scipy release.
SolveChain ==
    /\ pose_pc = "chains"
    /\ pose_i <= Len(chains)
    /\ LET c == chains[pose_i] IN
       /\ ~ChainSkipped(c, source_joints, target_joints)
       /\ IF ChainKeyError(c, source_joints, target_joints)
          THEN /\ pose_error' = "KeyError"
               /\ pose_pc' = "failed"
               /\ UNCHANGED <<rotations, world_rotations, pose_i>>
          ELSE LET r == SolveBone(c, source_joints, target_joints, world_rotations) IN
               /\ world_rotations' = Put(world_rotations, c.bone_name, r.world)
               /\ IF c.bone_name \in bone_labels
                  THEN \/ /\ \E rv \in LocalRotvec(c.bone_name, r.delta, RestBonePoses) :
                               rotations' = Put(rotations, c.bone_name, rv)
                          /\ pose_i' = pose_i + 1
                          /\ UNCHANGED <<pose_pc, pose_error>>
                       \/ /\ r.delta = NaNMat
                          /\ pose_error' = "ValueError"
                          /\ pose_pc' = "failed"
                          /\ UNCHANGED <<rotations, pose_i>>
                  ELSE /\ pose_i' = pose_i + 1
                       /\ UNCHANGED <<rotations, pose_pc, pose_error>>
    /\ UNCHANGED <<bone_labels, source_joints, target_joints, pose_params>>
    /\ UNCHANGED <<svcVars, fitVars, icpVars, prepVars, geoVars, anchorVars, circVars, tryonVars>>

\* "return rotations" after the last chain.
ReturnRotations ==
    /\ pose_pc = "chains"
    /\ pose_i > Len(chains)
    /\ pose_pc' = "apply"
    /\ UNCHANGED <<bone_labels, source_joints, target_joints, rotations,
                   world_rotations, pose_i, pose_error, pose_params>>
    /\ UNCHANGED <<svcVars, fitVars, icpVars, prepVars, geoVars, anchorVars, circVars, tryonVars>>

\* The template is posed with the solved rotations.
ApplyPoseToAnny ==
    /\ pose_pc = "apply"
    /\ pose_params' = PosedTemplate(bone_labels, rotations)
    /\ pose_pc' = "done"
    /\ UNCHANGED <<bone_labels, source_joints, target_joints, rotations,
                   world_rotations, pose_i, pose_error>>
    /\ UNCHANGED <<svcVars, fitVars, icpVars, prepVars, geoVars, anchorVars, circVars, tryonVars>>

NextPose ==
    \/ SolveRootHeading
    \/ SkipChain
    \/ SolveChain
    \/ ReturnRotations
    \/ ApplyPoseToAnny

SpecPose == InitPose /\ [][NextPose]_vars

----------------------------------------------------------------------------
(* The fit pipeline: analyzers, the lazily created template model, and     *)
(* analyze_from_vertices phase by phase.  The synchronous body of a fit is *)
(* not interleaved with another fit.                                       *)

MaxAnalyzers == 2

\* Fields the external fitter moves away from their initial value in one run.
MaxMoved == 1

\* An empty vertex array, and a body mesh.
VertexCounts == {0, 18000}

\* 0 stands for "no height given".
UserHeights == {0, 140, 175, 210}

UserGenders == {"None", "female", "FEMALE", "male"}

\* What slicing the input mesh can yield: a regular body, no usable slice,
\* a very thick short mesh, and a thin one with a collapsed hip loop.
LandmarkCases ==
    { [height |-> 170,
       circumferences |-> ("bust" :> 90 @@ "waist" :> 65 @@ "hips" :> 95)],
      [height |-> 170, circumferences |-> NoCircumferences],
      [height |-> 100,
       circumferences |-> ("bust" :> 300 @@ "waist" :> 300 @@ "hips" :> 300)],
      [height |-> 200, circumferences |-> ("waist" :> 10 @@ "hips" :> 0)] }

\* Values the external fitter may hand back for a field, in hundredths.
FitterValues == {-20, 35, 120}

\* The fitted template at rest: height and girths in hundredths of a model
\* unit, mass in kg, bmi in kg/m2; a girth of 0 is a slice that found no loop.
TemplateBodies ==
    { [height |-> 150, bust |-> 85, waist |-> 65, hips |-> 90,
       mass |-> 50, bmi |-> 22],
      [height |-> 180, bust |-> 0, waist |-> 85, hips |-> 105,
       mass |-> 80, bmi |-> 25] }

\* Mean per-vertex error of the fit, mm.
PveCases == {0, 20, 50, 75}

Init ==
    /\ SvcUnused /\ PoseIdle /\ FitIdle /\ IcpIdle /\ PrepIdle
    /\ GeoIdle /\ AnchorIdle /\ CircIdle /\ TryonIdle

StartFit(a, nv, h, g) ==
    fit' = [IdleFit EXCEPT !.pc = "ensure_regressor", !.analyzer = a,
                           !.n_vertices = nv, !.user_height_cm = h,
                           !.user_gender = g]

Advance(pc) == fit' = [fit EXCEPT !.pc = pc]

Fail(error) == fit' = [fit EXCEPT !.pc = "failed", !.error = error]

\* ANNYBodyAnalyzer(...) constructed by a caller that keeps the object.
ConstructAnalyzer ==
    /\ fit.pc = "idle"
    /\ Len(analyzers) < MaxAnalyzers
    /\ analyzers' = Append(analyzers, NewAnalyzer)
    /\ UNCHANGED <<models_created, body_analyzer, fit>>
    /\ UNCHANGED <<svcVars, poseVars, icpVars, prepVars, geoVars, anchorVars, circVars, tryonVars>>

\* analyzer.analyze_from_vertices(vertices, user_height_cm, user_gender).
AnalyzeFromVertices ==
    /\ fit.pc = "idle"
    /\ \E a \in 1..Len(analyzers), nv \in VertexCounts,
          h \in UserHeights, g \in UserGenders : StartFit(a, nv, h, g)
    /\ UNCHANGED <<analyzers, models_created, body_analyzer>>
    /\ UNCHANGED <<svcVars, poseVars, icpVars, prepVars, geoVars, anchorVars, circVars, tryonVars>>

\* The module-level convenience function: a new analyzer on every call.
AnalyzeSam3dOutput ==
    /\ fit.pc = "idle"
    /\ Len(analyzers) < MaxAnalyzers
    /\ analyzers' = Append(analyzers, NewAnalyzer)
    /\ \E nv \in VertexCounts, h \in UserHeights :
          StartFit(Len(analyzers) + 1, nv, h, "None")
    /\ UNCHANGED <<models_created, body_analyzer>>
    /\ UNCHANGED <<svcVars, poseVars, icpVars, prepVars, geoVars, anchorVars, circVars, tryonVars>>

\* BodyAnalyzer._analyze_with_anny: the lazily created analyzer of the
\* service object; neither height nor gender is passed on.
AnalyzeWithAnny ==
    /\ fit.pc = "idle"
    /\ IF body_analyzer = 0
       THEN /\ Len(analyzers) < MaxAnalyzers
            /\ analyzers' = Append(analyzers, NewAnalyzer)
            /\ body_analyzer' = Len(analyzers) + 1
       ELSE UNCHANGED <<analyzers, body_analyzer>>
    /\ \E nv \in VertexCounts : StartFit(body_analyzer', nv, 0, "None")
    /\ UNCHANGED models_created
    /\ UNCHANGED <<svcVars, poseVars, icpVars, prepVars, geoVars, anchorVars, circVars, tryonVars>>

\* self._ensure_regressor_loaded(), which first loads the model.
EnsureRegressorLoaded ==
    /\ fit.pc = "ensure_regressor"
    /\ LET r == _ensure_model_loaded(analyzers[fit.analyzer], models_created) IN
       /\ analyzers' = [analyzers EXCEPT ![fit.analyzer] =
                           [r.analyzer EXCEPT !._regressor = TRUE]]
       /\ models_created' = r.created
    /\ Advance("normalize")
    /\ UNCHANGED body_analyzer
    /\ UNCHANGED <<svcVars, poseVars, icpVars, prepVars, geoVars, anchorVars, circVars, tryonVars>>

\* Orientation detection and pelvis centring.  The column maximum of an
\* empty vertex array raises ValueError.
NormalizeMesh ==
    /\ fit.pc = "normalize"
    /\ IF fit.n_vertices = 0 THEN Fail("ValueError") ELSE Advance("landmarks")
    /\ UNCHANGED <<analyzers, models_created, body_analyzer>>
    /\ UNCHANGED <<svcVars, poseVars, icpVars, prepVars, geoVars, anchorVars, circVars, tryonVars>>

\* Phase 1.
ExtractSkeletalLandmarks ==
    /\ fit.pc = "landmarks"
    /\ \E lm \in LandmarkCases :
          fit' = [fit EXCEPT !.pc = "joints", !.landmarks = lm]
    /\ UNCHANGED <<analyzers, models_created, body_analyzer>>
    /\ UNCHANGED <<svcVars, poseVars, icpVars, prepVars, geoVars, anchorVars, circVars, tryonVars>>

\* Phase 1b: joints from mesh slices. The pelvis is the torso loop found
\* between 52% and 45% of the height; when no slice there yields a body
\* loop, the mean of the hip-band vertices (or the axis point) stands in.
ExtractJoints ==
    /\ fit.pc = "joints"
    /\ \E no_body_loop \in BOOLEAN :
          fit' = [fit EXCEPT !.pc = "initial_phenotypes",
                             !.pelvis_fallback = no_body_loop]
    /\ UNCHANGED <<analyzers, models_created, body_analyzer>>
    /\ UNCHANGED <<svcVars, poseVars, icpVars, prepVars, geoVars, anchorVars, circVars, tryonVars>>

\* Phase 2.
EstimateInitialPhenotypes ==
    /\ fit.pc = "initial_phenotypes"
    /\ fit' = [fit EXCEPT !.pc = "scale_mesh",
                          !.initial_phenotypes =
                              _estimate_initial_phenotypes(
                                  fit.landmarks, fit.user_height_cm, fit.user_gender)]
    /\ UNCHANGED <<analyzers, models_created, body_analyzer>>
    /\ UNCHANGED <<svcVars, poseVars, icpVars, prepVars, geoVars, anchorVars, circVars, tryonVars>>

ScaleMesh ==
    /\ fit.pc = "scale_mesh"
    /\ Advance("anny_joints")
    /\ UNCHANGED <<analyzers, models_created, body_analyzer>>
    /\ UNCHANGED <<svcVars, poseVars, icpVars, prepVars, geoVars, anchorVars, circVars, tryonVars>>

\* Phase 2b up to the scaling of both joint sets: coeffs_temp is bound only
\* on the branch taken when a height was given.
ScaleJoints ==
    /\ fit.pc = "anny_joints"
    /\ fit' = [fit EXCEPT !.pc = "rest_bone_poses",
                          !.coeffs_temp = Truthy(fit.user_height_cm)]
    /\ UNCHANGED <<analyzers, models_created, body_analyzer>>
    /\ UNCHANGED <<svcVars, poseVars, icpVars, prepVars, geoVars, anchorVars, circVars, tryonVars>>

\* self._model.get_rest_bone_poses(coeffs_temp): reading the local name
\* while it is unbound raises UnboundLocalError.
GetRestBonePoses ==
    /\ fit.pc = "rest_bone_poses"
    /\ IF fit.coeffs_temp THEN Advance("compute_pose") ELSE Fail("UnboundLocalError")
    /\ UNCHANGED <<analyzers, models_created, body_analyzer>>
    /\ UNCHANGED <<svcVars, poseVars, icpVars, prepVars, geoVars, anchorVars, circVars, tryonVars>>

ComputePoseFromJoints ==
    /\ fit.pc = "compute_pose"
    /\ Advance("topology_target")
    /\ UNCHANGED <<analyzers, models_created, body_analyzer>>
    /\ UNCHANGED <<svcVars, poseVars, icpVars, prepVars, geoVars, anchorVars, circVars, tryonVars>>

\* Phase 3.
CreateTopologyTarget ==
    /\ fit.pc = "topology_target"
    /\ Advance("regressor")
    /\ UNCHANGED <<analyzers, models_created, body_analyzer>>
    /\ UNCHANGED <<svcVars, poseVars, icpVars, prepVars, geoVars, anchorVars, circVars, tryonVars>>

\* Variant: the template is measured at the heuristic estimate.
measured_phenotypes_initial(f) == f.initial_phenotypes

\* Phase 5 builds the template from best_params:
\* get_phenotype_blendshape_coefficients(**best_params).
measured_phenotypes(f) == f.best_params

\* Phase 4: the external fitter is handed initial_phenotypes as its
\* initial_phenotype_kwargs, keeps the excluded fields and may hand back
\* any value for up to MaxMoved of the others.
RunRegressor ==
    /\ fit.pc = "regressor"
    /\ \E moved \in AtMost(PhenotypeNames \ excluded_phenotypes(fit.user_gender),
                           MaxMoved),
          v \in FitterValues :
          LET initial_phenotype_kwargs == fit.initial_phenotypes
              phenotype_kwargs ==
                  [k \in PhenotypeNames |->
                      IF k \in moved THEN v ELSE initial_phenotype_kwargs[k]]
          IN  fit' = [fit EXCEPT !.pc = "measure",
                                 !.fitter_start = initial_phenotype_kwargs,
                                 !.excluded = excluded_phenotypes(fit.user_gender),
                                 !.best_params = best_params_of(phenotype_kwargs)]
    /\ UNCHANGED <<analyzers, models_created, body_analyzer>>
    /\ UNCHANGED <<svcVars, poseVars, icpVars, prepVars, geoVars, anchorVars, circVars, tryonVars>>

\* Phase 5: measurement of the fitted template at rest, calibration, and
\* the confidence score.
Measure ==
    /\ fit.pc = "measure"
    /\ \E t \in TemplateBodies, pve_mm \in PveCases :
          LET scale == calibration_scale(fit.user_height_cm, t.height) IN
          fit' = [fit EXCEPT !.pc = "done",
                             !.result =
                                 [height_cm |-> Scaled(t.height, scale),
                                  bust_cm |-> Scaled(t.bust, scale),
                                  waist_cm |-> Scaled(t.waist, scale),
                                  hips_cm |-> Scaled(t.hips, scale),
                                  weight_kg |-> ScaledCubed(t.mass, scale),
                                  bmi |-> t.bmi,
                                  scale |-> scale,
                                  pve_mm |-> pve_mm,
                                  confidence |-> confidence_of(pve_mm),
                                  template |-> t,
                                  measured_from |-> measured_phenotypes(fit)]]
    /\ UNCHANGED <<analyzers, models_created, body_analyzer>>
    /\ UNCHANGED <<svcVars, poseVars, icpVars, prepVars, geoVars, anchorVars, circVars, tryonVars>>

\* The call returns its FittingResult or propagates its exception.
FitReturns ==
    /\ fit.pc \in {"done", "failed"}
    /\ fit' = IdleFit
    /\ UNCHANGED <<analyzers, models_created, body_analyzer>>
    /\ UNCHANGED <<svcVars, poseVars, icpVars, prepVars, geoVars, anchorVars, circVars, tryonVars>>

Next ==
    \/ ConstructAnalyzer
    \/ AnalyzeFromVertices
    \/ AnalyzeSam3dOutput
    \/ AnalyzeWithAnny
    \/ EnsureRegressorLoaded
    \/ NormalizeMesh
    \/ ExtractSkeletalLandmarks
    \/ ExtractJoints
    \/ EstimateInitialPhenotypes
    \/ ScaleMesh
    \/ ScaleJoints
    \/ GetRestBonePoses
    \/ ComputePoseFromJoints
    \/ CreateTopologyTarget
    \/ RunRegressor
    \/ Measure
    \/ FitReturns

Spec == Init /\ [][Next]_vars

----------------------------------------------------------------------------
(* Input preparation of analyze_from_vertices: orientation and centring of *)
(* the mesh, extraction of the target joints from keypoints or from mesh   *)
(* slices, centring and scaling of the two joint sets, up to the call of   *)
(* the pose solver.  Positions are lattice points in units of 0.1 m.       *)

VAdd(a, b) == <<a[1] + b[1], a[2] + b[2], a[3] + b[3]>>

\* Variant: the name is bound to the array it was made from.
np_copy_is_view(bound, name, src) == [bound EXCEPT ![name] = src]

\* x.copy(), np.array(x): the name is bound to a new array.
np_copy(bound, name, src) == [bound EXCEPT ![name] = name]

\* x[:, [0, 2, 1]], x * s, x - c: the result is always a new array.
np_new(bound, name) == [bound EXCEPT ![name] = name]

\* x *= s, x -= c, x[:, 1] *= -1, x[i][1] += c: the array bound to the name
\* is modified in place.
np_in_place(writes, bound, name) == [writes EXCEPT ![bound[name]] = @ + 1]

\* The MHR70 keypoint format: 70 points, index -> joint name.
NumKeypoints == 70

keypoint_mapping ==
    "head" :> 0 @@ "shoulder_l" :> 5 @@ "shoulder_r" :> 6 @@
    "elbow_l" :> 7 @@ "elbow_r" :> 8 @@ "hip_l" :> 9 @@ "hip_r" :> 10 @@
    "knee_l" :> 11 @@ "knee_r" :> 12 @@ "ankle_l" :> 13 @@ "ankle_r" :> 14 @@
    "wrist_l" :> 62 @@ "wrist_r" :> 41 @@ "neck" :> 69 @@
    "olecranon_l" :> 63 @@ "olecranon_r" :> 64 @@
    "acromion_l" :> 67 @@ "acromion_r" :> 68

\* The caller's keypoint list (JSON space: x, y down, z depth), n points
\* long: the body of PoseArmsDown seen from a camera two units away.
\* Point i of the list is element i + 1 of the sequence.
Keypoints(n) ==
    [k \in 1..n |->
        LET named == {j \in JointNames \ {"pelvis"} : keypoint_mapping[j] = k - 1}
            at == IF named = {} THEN Vec(0, 0, 3)
                  ELSE PoseArmsDown[CHOOSE j \in named : TRUE]
        IN  Vec(at[1] + 1, 0 - at[3], at[2] + 2)]

\* kp.mean(axis=0), rounded to the lattice.
MeanPoint(kp) ==
    LET RECURSIVE Sum(_)
        Sum(k) == IF k = 0 THEN ZeroVec ELSE VAdd(kp[k], Sum(k - 1))
        total == Sum(Len(kp))
    IN  <<total[1] \div Len(kp), total[2] \div Len(kp), total[3] \div Len(kp)>>

\* _extract_joints_from_keypoints: flip y, permute to (x, z, y), subtract
\* the hip midpoint (or the mean of a list of at most 10 points), name the
\* points the list is long enough to hold, add the pelvis when both hips are
\* there, and push the head back by 0.10.  Returns [joints, kp_final].
_extract_joints_from_keypoints(keypoints_3d) ==
    LET kp_transformed ==
            [k \in 1..Len(keypoints_3d) |->
                Vec(keypoints_3d[k][1], keypoints_3d[k][3], 0 - keypoints_3d[k][2])]
        kp_pelvis ==
            IF Len(kp_transformed) > 10
            THEN LET both == VAdd(kp_transformed[10], kp_transformed[11])
                 IN  <<both[1] \div 2, both[2] \div 2, both[3] \div 2>>
            ELSE MeanPoint(kp_transformed)
        kp_final == [k \in 1..Len(kp_transformed) |-> VSub(kp_transformed[k], kp_pelvis)]
        named == [j \in {n \in DOMAIN keypoint_mapping :
                             keypoint_mapping[n] < Len(kp_final)} |->
                     kp_final[keypoint_mapping[j] + 1]]
        with_pelvis ==
            IF "hip_l" \in DOMAIN named /\ "hip_r" \in DOMAIN named
            THEN LET both == VAdd(named["hip_l"], named["hip_r"])
                 IN  Put(named, "pelvis",
                         <<both[1] \div 2, both[2] \div 2, both[3] \div 2>>)
            ELSE named
        head_moved(v) == Vec(v[1], v[2] + 1, v[3])
    IN  [joints |-> [j \in DOMAIN with_pelvis |->
                        IF j = "head" THEN head_moved(with_pelvis[j])
                        ELSE with_pelvis[j]],
         kp_final |-> [k \in 1..Len(kp_final) |->
                        IF k = 1 THEN head_moved(kp_final[k]) ELSE kp_final[k]]]

\* _extract_joint_positions on the pelvis-centred mesh: the joints of
\* PoseArmsDown, with the pelvis found one unit below the mesh origin.
SlicedJoints == [j \in JointNames |-> VAdd(PoseArmsDown[j], Vec(0, 0, -1))]

\* The template's rest bone heads: RestJoints with the root five units up.
TemplateHeads == [j \in JointNames |-> VAdd(RestJoints[j], Vec(0, 0, 5))]

\* {k: v - pelvis for k, v in joints.items()} when the set has a pelvis,
\* else the set as it is.
centered_at_pelvis(joints) ==
    IF "pelvis" \in DOMAIN joints
    THEN [k \in DOMAIN joints |-> VSub(joints[k], joints["pelvis"])]
    ELSE joints

\* {k: v * scale for k, v in joints.items()}
scaled_joints(joints, scale) == [k \in DOMAIN joints |-> VScale(scale, joints[k])]

\* (sam3d scale, template scale) for a user height, <<0, 0>> without one.
PrepScales == {<<0, 0>>, <<2, 3>>, <<3, 2>>}

InitPrep ==
    /\ SvcUnused
    /\ PoseIdle
    /\ FitIdle
    /\ IcpIdle
    /\ GeoIdle /\ AnchorIdle /\ CircIdle /\ TryonIdle
    /\ \E n \in 0..NumKeypoints, z_up \in BOOLEAN, scales \in PrepScales :
          prep = [IdlePrep EXCEPT !.pc = "normalize", !.n_keypoints = n,
                                  !.z_up = z_up, !.scales = scales]

\* Orientation and centring of the mesh: a copy of the vertices (permuted
\* and flipped when the mesh is y-up), shifted twice in place; the faces are
\* only read, by trimesh.Trimesh(..., process=False).
PrepNormalize ==
    /\ prep.pc = "normalize"
    /\ LET bound == IF prep.z_up
                    THEN np_copy(prep.bound, "transformed", "vertices")
                    ELSE np_copy(np_new(prep.bound, "transformed"),
                                 "transformed", "transformed")
           flipped == IF prep.z_up THEN prep.writes
                      ELSE np_in_place(prep.writes, bound, "transformed")
           rough == np_in_place(flipped, bound, "transformed")
           centred == np_in_place(rough, bound, "transformed")
       IN  prep' = [prep EXCEPT !.pc = "extract_joints", !.bound = bound,
                                !.writes = centred]
    /\ UNCHANGED <<svcVars, poseVars, fitVars, icpVars, geoVars, anchorVars, circVars, tryonVars>>

\* Phase 1b: the target joints, from the keypoints when the list is not
\* empty, else from mesh slices.
PrepExtractJoints ==
    /\ prep.pc = "extract_joints"
    /\ IF prep.n_keypoints > 0
       THEN LET r == _extract_joints_from_keypoints(Keypoints(prep.n_keypoints))
                b1 == np_copy(prep.bound, "kp", "keypoints_3d")
                b2 == np_copy(b1, "kp_ply_space", b1["kp"])
                w1 == np_in_place(prep.writes, b2, "kp_ply_space")
                b3 == np_copy(np_new(b2, "kp_transformed"),
                              "kp_transformed", "kp_transformed")
                b4 == np_new(b3, "kp_final")
                w2 == IF "head" \in DOMAIN r.joints
                      THEN np_in_place(w1, b4, "kp_final") ELSE w1
            IN  prep' = [prep EXCEPT !.pc = "scale_to_height", !.bound = b4,
                                     !.writes = w2, !.sam3d_joints = r.joints,
                                     !.sam3d_keypoints_all = r.kp_final]
       ELSE prep' = [prep EXCEPT !.pc = "scale_to_height",
                                 !.sam3d_joints = SlicedJoints]
    /\ UNCHANGED <<svcVars, poseVars, fitVars, icpVars, geoVars, anchorVars, circVars, tryonVars>>

\* With a user height the mesh is scaled into a new array and the keypoint
\* array in place; the named joints are rows of that array and are scaled
\* with it, the pelvis is an array of its own and is not.
PrepScaleToHeight ==
    /\ prep.pc = "scale_to_height"
    /\ IF Truthy(prep.scales[1])
       THEN LET kps == prep.n_keypoints > 0
                bound == np_new(prep.bound, "scaled_verts")
            IN  prep' = [prep EXCEPT
                    !.pc = "center_joints",
                    !.bound = bound,
                    !.writes = IF kps THEN np_in_place(prep.writes, bound, "kp_final")
                               ELSE prep.writes,
                    !.sam3d_keypoints_all =
                        [k \in DOMAIN prep.sam3d_keypoints_all |->
                            VScale(prep.scales[1], prep.sam3d_keypoints_all[k])],
                    !.sam3d_joints =
                        IF kps
                        THEN [j \in DOMAIN prep.sam3d_joints |->
                                 IF j = "pelvis" THEN prep.sam3d_joints[j]
                                 ELSE VScale(prep.scales[1], prep.sam3d_joints[j])]
                        ELSE prep.sam3d_joints]
       ELSE prep' = [prep EXCEPT !.pc = "center_joints"]
    /\ UNCHANGED <<svcVars, poseVars, fitVars, icpVars, geoVars, anchorVars, circVars, tryonVars>>

\* Phase 2b, step 1: the template joints are read and both sets centred.
PrepCenterJointSets ==
    /\ prep.pc = "center_joints"
    /\ prep' = [prep EXCEPT
            !.pc = "scale_joints",
            !.anny_joints =
                centered_at_pelvis(_get_anny_joint_positions(RigBones, TemplateHeads)),
            !.sam3d_joints = centered_at_pelvis(prep.sam3d_joints)]
    /\ UNCHANGED <<svcVars, poseVars, fitVars, icpVars, geoVars, anchorVars, circVars, tryonVars>>

\* Phase 2b, step 2: both sets scaled to the user height, if there is one.
PrepScaleJointSets ==
    /\ prep.pc = "scale_joints"
    /\ IF Truthy(prep.scales[1])
       THEN prep' = [prep EXCEPT
                !.pc = "rest_bone_poses",
                !.anny_joints = scaled_joints(prep.anny_joints, prep.scales[2]),
                !.sam3d_joints = scaled_joints(prep.sam3d_joints, prep.scales[1])]
       ELSE prep' = [prep EXCEPT !.pc = "rest_bone_poses"]
    /\ UNCHANGED <<svcVars, poseVars, fitVars, icpVars, geoVars, anchorVars, circVars, tryonVars>>

\* get_rest_bone_poses(coeffs_temp), then the call of compute_pose on the
\* two sets; without a user height coeffs_temp is unbound.
PrepComputePose ==
    /\ prep.pc = "rest_bone_poses"
    /\ IF Truthy(prep.scales[1])
       THEN prep' = [prep EXCEPT !.pc = "compute_pose"]
       ELSE prep' = [prep EXCEPT !.pc = "failed", !.error = "UnboundLocalError"]
    /\ UNCHANGED <<svcVars, poseVars, fitVars, icpVars, geoVars, anchorVars, circVars, tryonVars>>

NextPrep ==
    \/ PrepNormalize
    \/ PrepExtractJoints
    \/ PrepScaleToHeight
    \/ PrepCenterJointSets
    \/ PrepScaleJointSets
    \/ PrepComputePose

SpecPrep == InitPrep /\ [][NextPrep]_vars

----------------------------------------------------------------------------
(* Rigid alignment loop (_icp_align), called with its default arguments    *)
(* from _create_anny_topology_target.  Mean nearest-neighbour distances    *)
(* are in units of 0.0001.                                                 *)

max_iterations == 50

\* Variant: the threshold itself counts as converged.
converged_at_threshold(mean_distance) ==
    mean_distance # NaNDistance /\ mean_distance <= 10

\* np.mean(distances) < 0.001; a comparison with NaN is False.
converged(mean_distance) ==
    mean_distance # NaNDistance /\ mean_distance < 10

\* What tree.query can report as the mean distance of one iteration.
MeanDistances == {0, 9, 10, 11, 500, NaNDistance}

InitIcp ==
    /\ SvcUnused
    /\ PoseIdle
    /\ FitIdle
    /\ PrepIdle
    /\ GeoIdle /\ AnchorIdle /\ CircIdle /\ TryonIdle
    /\ icp = IdleIcp

\* The call: centring, the KD-tree, current = source_centered.copy().
IcpAlign ==
    /\ icp.pc = "idle"
    /\ icp' = [icp EXCEPT !.pc = "loop", !.i = 0]
    /\ UNCHANGED <<svcVars, poseVars, fitVars, prepVars, geoVars, anchorVars, circVars, tryonVars>>

\* One pass of the loop body: query, SVD, scaled rotation applied, then the
\* convergence test on the distances queried at the top of the pass.  On
\* non-finite points the SVD may raise instead.
IcpIterate ==
    /\ icp.pc = "loop"
    /\ icp.i < max_iterations
    /\ \E d \in MeanDistances :
          \/ icp' = [icp EXCEPT !.pc = IF converged(d) THEN "returned" ELSE "loop",
                                !.i = icp.i + 1,
                                !.mean_distance = d]
          \/ /\ d = NaNDistance
             /\ icp' = [icp EXCEPT !.pc = "raised",
                                   !.mean_distance = d,
                                   !.error = "LinAlgError"]
    /\ UNCHANGED <<svcVars, poseVars, fitVars, prepVars, geoVars, anchorVars, circVars, tryonVars>>

\* range(max_iterations) is used up: the loop ends and the call returns.
IcpExhausted ==
    /\ icp.pc = "loop"
    /\ icp.i = max_iterations
    /\ icp' = [icp EXCEPT !.pc = "returned"]
    /\ UNCHANGED <<svcVars, poseVars, fitVars, prepVars, geoVars, anchorVars, circVars, tryonVars>>

NextIcp ==
    \/ IcpAlign
    \/ IcpIterate
    \/ IcpExhausted

\* The loop runs in the calling thread with nothing to wait for: a step
\* that can be taken is taken.
SpecIcp == InitIcp /\ [][NextIcp]_vars /\ WF_vars(NextIcp)

----------------------------------------------------------------------------
(* _extract_joint_positions from the pelvis on: positions are <<x, y>> in   *)
(* millimetres, heights are percentages of the mesh height                  *)

\* Default threshold of is_near_arm (0.08 m).
arm_threshold == 80

Dist2(p, q) == (p[1] - q[1]) * (p[1] - q[1]) + (p[2] - q[2]) * (p[2] - q[2])

\* is_near_arm: the loop centre is closer than the threshold, in the
\* horizontal plane, to a tracked position of either arm.
is_near_arm(loop_center, arm_positions) ==
    \E arm_pos \in arm_positions.l \cup arm_positions.r :
        Dist2(loop_center, arm_pos) < arm_threshold * arm_threshold

\* "[c for c in loops if not is_near_arm(c)]"
not_near_arm(loops, arm_positions) ==
    SelectSeq(loops, LAMBDA c : ~is_near_arm(c, arm_positions))

Range(seq) == {seq[i] : i \in 1..Len(seq)}

RECURSIVE SumXY(_)
SumXY(seq) ==
    IF seq = << >> THEN <<0, 0>>
    ELSE LET rest == SumXY(Tail(seq))
         IN  <<Head(seq)[1] + rest[1], Head(seq)[2] + rest[2]>>

\* np.mean(centers, axis=0); the centres below are chosen so that the
\* mean of up to three of them is whole.
MeanXY(seq) == <<SumXY(seq)[1] \div Len(seq), SumXY(seq)[2] \div Len(seq)>>

NoLoop == <<"None">>

\* split_left_right: mean of the centres with x < 0 and of those with x >= 0.
split_left_right(centers) ==
    LET left == SelectSeq(centers, LAMBDA c : c[1] < 0)
        right == SelectSeq(centers, LAMBDA c : c[1] >= 0)
    IN  [left |-> IF left = << >> THEN NoLoop ELSE MeanXY(left),
         right |-> IF right = << >> THEN NoLoop ELSE MeanXY(right)]

RECURSIVE InsertByPelvisX(_, _, _)
InsertByPelvisX(c, sorted, pelvis_x) ==
    IF sorted = << >> THEN <<c>>
    ELSE IF Abs(Head(sorted)[1] - pelvis_x) <= Abs(c[1] - pelvis_x)
         THEN <<Head(sorted)>> \o InsertByPelvisX(c, Tail(sorted), pelvis_x)
         ELSE <<c>> \o sorted

\* leg_loops.sort(key=lambda c: abs(c[0] - pelvis_x)), a stable sort.
RECURSIVE SortByPelvisX(_, _)
SortByPelvisX(loops, pelvis_x) ==
    IF loops = << >> THEN << >>
    ELSE InsertByPelvisX(loops[Len(loops)],
                         SortByPelvisX(SubSeq(loops, 1, Len(loops) - 1), pelvis_x),
                         pelvis_x)

\* The meshes the extraction is run on: the legs merge into the torso at
\* crotch_pct, the surface is open (no closed loop) from hole_from upwards,
\* the ankles stand ankle_x to each side, and the arms are stretched out
\* ("out"), hang straight down beside the legs and are tracked ("down"),
\* hang down without having been found ("untracked"), or are absent.
Bodies ==
    [crotch_pct : {44, 47, 50, 53}, hole_from : {40, 46, 50, 99},
     arms : {"none", "out", "down", "untracked"}, ankle_x : {90, 150}]

\* get_loops_at_height: the loop centres of the slice at pct, in path order.
get_loops_at_height(body, pct) ==
    IF pct >= body.hole_from THEN << >>
    ELSE LET core == IF pct <= 5
                     THEN << <<-body.ankle_x, 0>>, <<body.ankle_x, 0>> >>
                     ELSE IF pct >= body.crotch_pct THEN << <<0, 0>> >>
                     ELSE << <<-90, 0>>, <<90, 0>> >>
             hanging == IF body.arms \in {"down", "untracked"} /\ pct >= 25
                        THEN << <<-180, 0>>, <<180, 0>> >>
                        ELSE << >>
         IN  core \o hanging

\* arm_positions after the shoulders, elbows and wrists have been tracked.
TrackedArms(body) ==
    CASE body.arms = "out" ->
            [l |-> {<<-180, 0>>, <<-420, 0>>, <<-660, 0>>},
             r |-> {<<180, 0>>, <<420, 0>>, <<660, 0>>}]
      [] body.arms = "down" -> [l |-> {<<-180, 0>>}, r |-> {<<180, 0>>}]
      [] OTHER -> [l |-> {}, r |-> {}]

\* The mean of the vertices within 5% of the height around the 50% level,
\* NoLoop when there is none.
HipVertexMeans == {NoLoop, <<0, 0>>, <<30, 0>>}

At(xy, pct) == <<xy[1], xy[2], pct>>

InitGeo ==
    /\ SvcUnused
    /\ PoseIdle
    /\ FitIdle
    /\ IcpIdle
    /\ PrepIdle
    /\ AnchorIdle /\ CircIdle /\ TryonIdle
    /\ \E body \in Bodies :
          geo = [IdleGeo EXCEPT !.pc = "pelvis", !.pct = 52, !.body = body,
                                !.arm_positions = TrackedArms(body)]

\* One slice of the pelvis scan, range(52, 44, -1).
GeoPelvisSlice ==
    /\ geo.pc = "pelvis"
    /\ LET loops == get_loops_at_height(geo.body, geo.pct) IN
          LET body_loops == not_near_arm(loops, geo.arm_positions) IN
          IF Len(body_loops) >= 1
          THEN geo' = [geo EXCEPT
                   !.joints = Put(@, "pelvis",
                                  At(IF Len(body_loops) = 1 THEN body_loops[1]
                                     ELSE MeanXY(body_loops), geo.pct)),
                   !.from_loops = @ \cup ({"pelvis"} \X Range(body_loops)),
                   !.pc = "hips", !.pct = 48]
          ELSE IF geo.pct > 45
               THEN geo' = [geo EXCEPT !.pct = @ - 1]
               ELSE geo' = [geo EXCEPT !.pc = "pelvis_fallback"]
    /\ UNCHANGED <<svcVars, poseVars, fitVars, icpVars, prepVars,
                   anchorVars, circVars, tryonVars>>

\* "if 'pelvis' not in joints": the vertex mean around 50%, else [0, 0, z].
GeoPelvisFallback ==
    /\ geo.pc = "pelvis_fallback"
    /\ \E hip_verts \in HipVertexMeans :
          geo' = [geo EXCEPT
                    !.joints = Put(@, "pelvis",
                                   IF hip_verts # NoLoop THEN At(hip_verts, 50)
                                   ELSE <<0, 0, 50>>),
                    !.pc = "hips", !.pct = 48]
    /\ UNCHANGED <<svcVars, poseVars, fitVars, icpVars, prepVars,
                   anchorVars, circVars, tryonVars>>

\* Joints set from split_left_right(centers): keys for the sides found.
PutSides(joints, left_key, right_key, centers, pct) ==
    LET lr == split_left_right(centers)
        with_left == IF lr.left # NoLoop THEN Put(joints, left_key, At(lr.left, pct))
                     ELSE joints
    IN  IF lr.right # NoLoop THEN Put(with_left, right_key, At(lr.right, pct))
        ELSE with_left

\* One slice of the hip scan, range(48, 40, -1).
GeoHipSlice ==
    /\ geo.pc = "hips"
    /\ LET loops == get_loops_at_height(geo.body, geo.pct) IN
          LET leg_loops == not_near_arm(loops, geo.arm_positions)
              closest == IF "pelvis" \in DOMAIN geo.joints
                         THEN SubSeq(SortByPelvisX(leg_loops, geo.joints["pelvis"][1]),
                                     1, 2)
                         ELSE leg_loops
          IN
          IF Len(leg_loops) >= 2
          THEN geo' = [geo EXCEPT
                   !.joints = PutSides(@, "hip_l", "hip_r", closest, geo.pct),
                   !.from_loops = @ \cup ({"hip"} \X Range(closest)),
                   !.pc = "knees"]
          ELSE IF geo.pct > 41
               THEN geo' = [geo EXCEPT !.pct = @ - 1]
               ELSE geo' = [geo EXCEPT !.pc = "knees"]
    /\ UNCHANGED <<svcVars, poseVars, fitVars, icpVars, prepVars,
                   anchorVars, circVars, tryonVars>>

\* The slice at 28% of the height.
GeoKnees ==
    /\ geo.pc = "knees"
    /\ LET loops == get_loops_at_height(geo.body, 28) IN
          LET leg_loops == not_near_arm(loops, geo.arm_positions) IN
          IF Len(leg_loops) >= 2
          THEN geo' = [geo EXCEPT
                   !.joints = PutSides(@, "knee_l", "knee_r", leg_loops, 28),
                   !.from_loops = @ \cup ({"knee"} \X Range(leg_loops)),
                   !.pc = "ankles"]
          ELSE geo' = [geo EXCEPT !.pc = "ankles"]
    /\ UNCHANGED <<svcVars, poseVars, fitVars, icpVars, prepVars,
                   anchorVars, circVars, tryonVars>>

\* The slice at 5% of the height.
GeoAnkles ==
    /\ geo.pc = "ankles"
    /\ LET loops == get_loops_at_height(geo.body, 5) IN
          IF Len(loops) >= 2
          THEN geo' = [geo EXCEPT
                   !.joints = PutSides(@, "ankle_l", "ankle_r", loops, 5),
                   !.from_loops = @ \cup ({"ankle"} \X Range(loops)),
                   !.pc = "done"]
          ELSE geo' = [geo EXCEPT !.pc = "done"]
    /\ UNCHANGED <<svcVars, poseVars, fitVars, icpVars, prepVars,
                   anchorVars, circVars, tryonVars>>

NextGeo ==
    \/ GeoPelvisSlice
    \/ GeoPelvisFallback
    \/ GeoHipSlice
    \/ GeoKnees
    \/ GeoAnkles

SpecGeo == InitGeo /\ [][NextGeo]_vars

----------------------------------------------------------------------------
(* analyze_from_vertices, "CENTER AT PELVIS": horizontal positions <<x, y>> *)
(* in centimetres of the oriented mesh                                       *)

\* Loops a pelvis-level slice can hold: the torso and one loop per leg, as
\* [points |-> number of points of the polyline, centre |-> mean of them].
SliceLoops ==
    { [points |-> 40, centre |-> <<0, 2>>],
      [points |-> 24, centre |-> <<-9, 0>>],
      [points |-> 24, centre |-> <<9, 0>>] }

\* What temp_mesh.section(...) does at the pelvis level: it returns None,
\* a path without polylines, a path with one or two loops, or it raises on
\* a mesh it cannot slice.
SliceOutcomes ==
    {[outcome |-> o, loops |-> << >>] : o \in {"none", "empty", "raises"}}
        \cup {[outcome |-> "path", loops |-> q] :
                q \in {<<a>> : a \in SliceLoops}
                      \cup {q \in {<<a, b>> : a \in SliceLoops, b \in SliceLoops} :
                                q[1] # q[2]}}

\* max(pelvis_slice.discrete, key=lambda l: len(l)): the first of the
\* loops with the most points.
largest_loop(loops) ==
    loops[CHOOSE i \in 1..Len(loops) :
            /\ \A k \in 1..Len(loops) : loops[k].points <= loops[i].points
            /\ \A k \in 1..(i - 1) : loops[k].points < loops[i].points]

\* mesh_pelvis[:2]: the centre of the largest loop of the slice, or the
\* origin of the roughly centred mesh.
mesh_pelvis_of(pelvis_slice) ==
    IF pelvis_slice.outcome = "path" /\ pelvis_slice.loops # << >>
    THEN largest_loop(pelvis_slice.loops).centre
    ELSE <<0, 0>>

\* Input means: the mean of all vertices, and the mean of the vertices
\* near the pelvis level relative to it (<<"None">> when there are none).
RoughCenters == {<<0, 0>>, <<5, -3>>}

BandMeans == {<<"None">>, <<0, 0>>, <<3, 1>>}

InitAnchor ==
    /\ SvcUnused
    /\ PoseIdle
    /\ FitIdle
    /\ IcpIdle
    /\ PrepIdle
    /\ GeoIdle /\ CircIdle /\ TryonIdle
    /\ \E faces \in BOOLEAN, degenerate \in BOOLEAN, c \in RoughCenters,
          b \in BandMeans, sl \in SliceOutcomes :
          /\ faces => ~degenerate
          /\ anchor = [IdleAnchor EXCEPT !.pc = "rough_center", !.faces = faces,
                                         !.degenerate = degenerate,
                                         !.rough_center = c, !.band_mean = b,
                                         !.slice = sl]

\* transformed -= transformed.mean(axis=0)
AnchorRoughCenter ==
    /\ anchor.pc = "rough_center"
    /\ anchor' = [anchor EXCEPT !.pc = "temp_mesh", !.offset = anchor.rough_center]
    /\ UNCHANGED <<svcVars, poseVars, fitVars, icpVars, prepVars,
                   geoVars, circVars, tryonVars>>

\* The mesh that is sliced: the given faces, or the convex hull of the
\* points, which cannot be built from a degenerate point set.
AnchorTempMesh ==
    /\ anchor.pc = "temp_mesh"
    /\ IF ~anchor.faces /\ anchor.degenerate
       THEN anchor' = [anchor EXCEPT !.pc = "failed", !.error = "QhullError"]
       ELSE anchor' = [anchor EXCEPT !.pc = "section"]
    /\ UNCHANGED <<svcVars, poseVars, fitVars, icpVars, prepVars,
                   geoVars, circVars, tryonVars>>

\* pelvis_slice = temp_mesh.section(...) and the choice of mesh_pelvis;
\* there is no handler around the call.
AnchorSection ==
    /\ anchor.pc = "section"
    /\ IF anchor.slice.outcome = "raises"
       THEN anchor' = [anchor EXCEPT !.pc = "failed", !.error = "Exception"]
       ELSE anchor' = [anchor EXCEPT !.pc = "recenter",
                                     !.pelvis_slice = anchor.slice,
                                     !.mesh_pelvis = mesh_pelvis_of(anchor.slice)]
    /\ UNCHANGED <<svcVars, poseVars, fitVars, icpVars, prepVars,
                   geoVars, circVars, tryonVars>>

\* transformed -= mesh_pelvis
AnchorRecenter ==
    /\ anchor.pc = "recenter"
    /\ anchor' = [anchor EXCEPT
                    !.pc = "done",
                    !.offset = <<@[1] + anchor.mesh_pelvis[1],
                                 @[2] + anchor.mesh_pelvis[2]>>]
    /\ UNCHANGED <<svcVars, poseVars, fitVars, icpVars, prepVars,
                   geoVars, circVars, tryonVars>>

NextAnchor ==
    \/ AnchorRoughCenter
    \/ AnchorTempMesh
    \/ AnchorSection
    \/ AnchorRecenter

SpecAnchor == InitAnchor /\ [][NextAnchor]_vars

----------------------------------------------------------------------------
(* _measure_circumference: loops are polylines of <<x, y>> points in        *)
(* centimetres; every edge below has a whole length                         *)

\* np.linalg.norm of a vector whose length is whole.
Norm(v) ==
    CHOOSE n \in 0..(Abs(v[1]) + Abs(v[2])) : n * n = v[1] * v[1] + v[2] * v[2]

\* sum(norm(loop_2d[i] - loop_2d[(i + 1) % len(loop_2d)]) for i in range(len))
RECURSIVE perimeter_from(_, _)
perimeter_from(loop_2d, i) ==
    IF i > Len(loop_2d) THEN 0
    ELSE LET next == loop_2d[(i % Len(loop_2d)) + 1]
         IN  Norm(<<loop_2d[i][1] - next[1], loop_2d[i][2] - next[2]>>)
                + perimeter_from(loop_2d, i + 1)

perimeter(loop_2d) == perimeter_from(loop_2d, 1)

\* center_x**2 + center_y**2 as <<numerator, denominator>>; the square
\* root the code takes does not change the order.
center_dist(loop_2d) ==
    LET total == SumXY(loop_2d)
    IN  <<total[1] * total[1] + total[2] * total[2], Len(loop_2d) * Len(loop_2d)>>

\* Variant: the loop farther from the axis wins.
is_closer_reversed(dist, best) ==
    IF best = Infinity THEN TRUE ELSE dist[1] * best[2] > best[1] * dist[2]

\* "center_dist < best_center_dist"
is_closer(dist, best) ==
    IF best = Infinity THEN TRUE ELSE dist[1] * best[2] < best[1] * dist[2]

\* Polylines a slice can hold: the torso, the torso with its first point
\* repeated at the end, a torso off the axis, an arm on each side at the
\* same distance, and a two-point sliver on the axis.
Polylines ==
    { << <<-3, -2>>, <<3, -2>>, <<3, 2>>, <<-3, 2>> >>,
      << <<-3, -2>>, <<3, -2>>, <<3, 2>>, <<-3, 2>>, <<-3, -2>> >>,
      << <<0, 0>>, <<4, 0>>, <<4, 3>> >>,
      << <<-11, -1>>, <<-9, -1>>, <<-9, 1>>, <<-11, 1>> >>,
      << <<9, -3>>, <<11, -3>>, <<11, 3>>, <<9, 3>> >>,
      << <<0, 0>>, <<1, 0>> >> }

\* At most MaxLoops polylines in one slice.
MaxLoops == 3

\* path.discrete: the polylines of the slice, in path order.
Discretes ==
    {q \in UNION {[1..n -> Polylines] : n \in 0..MaxLoops} :
        \A a, b \in 1..Len(q) : a # b => q[a] # q[b]}

InitCirc ==
    /\ SvcUnused
    /\ PoseIdle
    /\ FitIdle
    /\ IcpIdle
    /\ PrepIdle
    /\ GeoIdle /\ AnchorIdle /\ TryonIdle
    /\ \/ circ = [IdleCirc EXCEPT !.pc = "section", !.path_none = TRUE]
       \/ \E loops \in Discretes :
             circ = [IdleCirc EXCEPT !.pc = "section", !.loops = loops]

\* "if path is None: return 0.0" and "if not loops: return 0.0"
CircSection ==
    /\ circ.pc = "section"
    /\ IF circ.path_none \/ circ.loops = << >>
       THEN circ' = [circ EXCEPT !.pc = "done", !.result = 0]
       ELSE circ' = [circ EXCEPT !.pc = "loop", !.i = 1]
    /\ UNCHANGED <<svcVars, poseVars, fitVars, icpVars, prepVars,
                   geoVars, anchorVars, tryonVars>>

\* One iteration of "for loop in loops".
CircLoop ==
    /\ circ.pc = "loop"
    /\ circ.i <= Len(circ.loops)
    /\ LET loop_2d == circ.loops[circ.i] IN
       IF Len(loop_2d) < 3
       THEN circ' = [circ EXCEPT !.i = @ + 1]
       ELSE IF is_closer(center_dist(loop_2d), circ.best_center_dist)
            THEN circ' = [circ EXCEPT !.i = @ + 1,
                                      !.best_center_dist = center_dist(loop_2d),
                                      !.best_loop_perim = perimeter(loop_2d)]
            ELSE circ' = [circ EXCEPT !.i = @ + 1]
    /\ UNCHANGED <<svcVars, poseVars, fitVars, icpVars, prepVars,
                   geoVars, anchorVars, tryonVars>>

\* "return best_loop_perim"
CircReturn ==
    /\ circ.pc = "loop"
    /\ circ.i > Len(circ.loops)
    /\ circ' = [circ EXCEPT !.pc = "done", !.result = circ.best_loop_perim]
    /\ UNCHANGED <<svcVars, poseVars, fitVars, icpVars, prepVars,
                   geoVars, anchorVars, tryonVars>>

NextCirc ==
    \/ CircSection
    \/ CircLoop
    \/ CircReturn

SpecCirc == InitCirc /\ [][NextCirc]_vars

----------------------------------------------------------------------------
(* TryOnWorkflow.run and its activities on one TryOnRequest row *)

\* Variant: the upload marks the request FAILED.
request_after_upload_failed(request, url) ==
    [request EXCEPT !.person_image_url = url, !.status = "FAILED"]

\* upload_person_image, the database part: the image URL is stored and the
\* status becomes PROCESSING.
request_after_upload(request, url) ==
    [request EXCEPT !.person_image_url = url, !.status = "PROCESSING"]

\* update_request_result: COMPLETED with the result URL, or FAILED with the
\* error message.
request_after_update(request, output) ==
    IF output.success = TRUE
    THEN [request EXCEPT !.status = "COMPLETED",
                         !.result_image_url = output.result_url]
    ELSE [request EXCEPT !.status = "FAILED", !.error_message = output.error]

\* The dictionaries generate_try_on_image returns.
GenerateResults ==
    { [success |-> TRUE, result_url |-> "result", error |-> "None"],
      [success |-> FALSE, result_url |-> "None", error |-> "generation failed"],
      [success |-> FALSE, result_url |-> "None", error |-> "upload failed"],
      [success |-> FALSE, result_url |-> "None", error |-> "exception"] }

\* The URLs the storage service and the dress table hand back.
PersonUrls == {"person/a.jpg", "person/b.jpg"}
DressUrls == {"dress/a.jpg", "dress/b.jpg"}

\* What an attempt of each activity can raise.
Exceptions ==
    [upload_person_image |-> {"Failed to upload image", "NoResultFound", "commit failed"},
     get_dress_image_url |-> {"Dress not found", "connection lost"},
     generate_try_on_image |-> {"timeout"},
     update_request_result |-> {"NoResultFound", "commit failed"}]

\* The "except Exception" branch of run().
except_output(e) ==
    [success |-> FALSE, result_url |-> "None", error |-> <<"Workflow failed: ", e>>]

\* Attempts of an activity without a retry policy before its failure
\* reaches the workflow.
MaxAttempts == 2

\* The retry policy of generate_try_on_image.
maximum_attempts == 3

attempts_of(activity) ==
    IF activity = "generate_try_on_image" THEN maximum_attempts ELSE MaxAttempts

\* An attempt of the activity at tryon.pc raised: the worker runs it again,
\* or the failure reaches run(), which returns from its except branch.
AttemptRaised ==
    \/ /\ tryon.attempt + 1 < attempts_of(tryon.pc)
       /\ tryon' = [tryon EXCEPT !.attempt = @ + 1]
    \/ \E e \in Exceptions[tryon.pc] :
          tryon' = [tryon EXCEPT !.pc = "returned", !.raised_by = tryon.pc,
                                !.output = except_output(e)]

InitTryon ==
    /\ SvcUnused
    /\ PoseIdle
    /\ FitIdle
    /\ IcpIdle
    /\ PrepIdle
    /\ GeoIdle /\ AnchorIdle /\ CircIdle
    /\ tryon = [IdleTryon EXCEPT !.pc = "upload_person_image"]

\* Step 1: the storage upload fails, the row is not found or the commit
\* fails (the activity raises), or the row is updated.
UploadPersonImage ==
    /\ tryon.pc = "upload_person_image"
    /\ \/ AttemptRaised
       \/ \E url \in PersonUrls :
             tryon' = [tryon EXCEPT !.pc = "get_dress_image_url", !.attempt = 0,
                                   !.request = request_after_upload(@, url)]
    /\ UNCHANGED <<svcVars, poseVars, fitVars, icpVars, prepVars,
                   geoVars, anchorVars, circVars>>

\* Step 2: the dress is found, or the activity raises.
GetDressImageUrl ==
    /\ tryon.pc = "get_dress_image_url"
    /\ \/ AttemptRaised
       \/ \E url \in DressUrls :
             tryon' = [tryon EXCEPT !.pc = "generate_try_on_image", !.attempt = 0,
                                   !.dress_image_url = url]
    /\ UNCHANGED <<svcVars, poseVars, fitVars, icpVars, prepVars,
                   geoVars, anchorVars, circVars>>

\* Step 3: the activity catches its own exceptions and returns a
\* dictionary; an attempt can still be lost to its timeout.
GenerateTryOnImage ==
    /\ tryon.pc = "generate_try_on_image"
    /\ \/ AttemptRaised
       \/ \E r \in GenerateResults :
             tryon' = [tryon EXCEPT !.pc = "update_request_result", !.attempt = 0,
                                   !.try_on_result = r]
    /\ UNCHANGED <<svcVars, poseVars, fitVars, icpVars, prepVars,
                   geoVars, anchorVars, circVars>>

\* Step 4 and the return of run(): the row is not found or the commit
\* fails (the activity raises), or the status is stored.
UpdateRequestResult ==
    /\ tryon.pc = "update_request_result"
    /\ \/ AttemptRaised
       \/ tryon' = [tryon EXCEPT !.pc = "returned",
                                 !.request = request_after_update(@, tryon.try_on_result),
                                 !.output = tryon.try_on_result]
    /\ UNCHANGED <<svcVars, poseVars, fitVars, icpVars, prepVars,
                   geoVars, anchorVars, circVars>>

NextTryon ==
    \/ UploadPersonImage
    \/ GetDressImageUrl
    \/ GenerateTryOnImage
    \/ UpdateRequestResult

SpecTryon == InitTryon /\ [][NextTryon]_vars

----------------------------------------------------------------------------
(* Properties of the service helpers *)

\* C6, as stated: each ratio classifier returns Hourglass if bust/hips is in
\* [0.9, 1.1] and waist/bust < 0.8; otherwise Pear if bust/hips < 0.9;
\* otherwise InvertedTriangle if bust/hips > 1.1; otherwise Apple if
\* bust/hips > 1.0 and waist/bust >= 0.8; otherwise Rectangle.
RatioRuleAsStated(b, w, h) ==
    IF RatioGe(b, h, 9) /\ RatioLe(b, h, 11) /\ RatioLt(w, b, 8) THEN HOURGLASS
    ELSE IF RatioLt(b, h, 9) THEN PEAR
    ELSE IF RatioGt(b, h, 11) THEN INVERTED_TRIANGLE
    ELSE IF RatioGt(b, h, 10) /\ RatioGe(w, b, 8) THEN APPLE
    ELSE RECTANGLE

RatioClassifiers == {"anthropometry", "pose_measurement"}

C6_RatioRuleWithBoundary ==
    \A c \in RatioClassifiers :
        body_types[c] # "none" => body_types[c] = RatioRuleAsStated(bust, waist, hips)

\* The boundary input: waist/bust is exactly 0.8 with bust/hips in (1.0, 1.1].
C6_BoundaryReached ==
    /\ bust = Inches(40) /\ waist = Inches(32) /\ hips = Inches(38)
    /\ \A c \in RatioClassifiers : body_types[c] = RECTANGLE

ReferenceInputs ==
    { <<36, 26, 36, HOURGLASS>>, <<34, 28, 40, PEAR>>, <<38, 36, 37, APPLE>>,
      <<40, 30, 35, INVERTED_TRIANGLE>>, <<35, 32, 36, RECTANGLE>> }

\* C7: every classifier returns the stated type on each of the five reference
\* inputs (bust, waist, hips): (36,26,36) Hourglass, (34,28,40) Pear,
\* (38,36,37) Apple, (40,30,35) InvertedTriangle, (35,32,36) Rectangle.
C7_ReferenceTypes ==
    \A c \in Classifiers, r \in ReferenceInputs :
        (/\ body_types[c] # "none"
         /\ bust = Inches(r[1]) /\ waist = Inches(r[2]) /\ hips = Inches(r[3]))
            => body_types[c] = r[4]

C7_AllClassifiersOnRectangleInput ==
    /\ bust = Inches(35) /\ waist = Inches(32) /\ hips = Inches(36)
    /\ \A c \in Classifiers : body_types[c] = RECTANGLE

RECURSIVE FirstRowFrom(_, _, _, _)
\* The size of the first chart row, from row i on, none of whose three
\* thresholds is exceeded; 24 when there is none.
FirstRowFrom(i, b, w, h) ==
    IF i > Len(SIZE_CHART) THEN 24
    ELSE IF /\ b <= Col(SIZE_CHART[i], 1)
            /\ w <= Col(SIZE_CHART[i], 2)
            /\ h <= Col(SIZE_CHART[i], 3)
         THEN Col(SIZE_CHART[i], 0)
         ELSE FirstRowFrom(i + 1, b, w, h)

\* C8: calculate_dress_size returns the size of the first chart row whose
\* bust, waist and hips thresholds are all not exceeded (thresholds
\* inclusive: (36.5, 28.5, 39.5) gives 8), and 24 when no row qualifies.
C8_FirstQualifyingRow ==
    dress_size # -1 =>
        /\ dress_size = FirstRowFrom(1, bust, waist, hips)
        /\ (bust = Inches(36) + 1 /\ waist = Inches(28) + 1 /\ hips = Inches(39) + 1) => dress_size = 8

C8_ThresholdInput ==
    bust = Inches(36) + 1 /\ waist = Inches(28) + 1 /\ hips = Inches(39) + 1 /\ dress_size = 8

ChartSizes == {Col(SIZE_CHART[i], 0) : i \in 1..Len(SIZE_CHART)}

\* C9: calculate_dress_size is non-decreasing in each of bust, waist and
\* hips with the other two held fixed, and its result is one of the chart's
\* sizes (0 to 24).
C9_MonotoneInChart ==
    dress_size # -1 =>
        /\ dress_size \in ChartSizes
        /\ dress_size \in 0..24
        /\ dress_size <= calculate_dress_size(bust + 1, waist, hips)
        /\ dress_size <= calculate_dress_size(bust, waist + 1, hips)
        /\ dress_size <= calculate_dress_size(bust, waist, hips + 1)

\* A half-inch more on the hips alone moves the size up.
C9_StepUp ==
    /\ dress_size = 8
    /\ bust = Inches(36) + 1 /\ waist = Inches(28) + 1 /\ hips = Inches(39) + 1
    /\ calculate_dress_size(bust, waist, hips + 1) = 10

SortedDescending(recs) ==
    \A i \in 1..Len(recs), j \in 1..Len(recs) :
        i < j => recs[i].score >= recs[j].score

HighestScored(t) ==
    CHOOSE r \in {SILHOUETTE_MATRIX[t][k] : k \in 1..Len(SILHOUETTE_MATRIX[t])} :
        \A k \in 1..Len(SILHOUETTE_MATRIX[t]) : r.score >= SILHOUETTE_MATRIX[t][k].score

\* C10: for every body type and limit >= 0 the call returns at most limit
\* recommendations, sorted by score descending, and its first entry is the
\* highest-scored silhouette of the body type (Mermaid for Hourglass, A-line
\* for Pear, Empire for Apple).
C10_LimitedSortedBestFirst ==
    (recommendations.called /\ limit >= 0) =>
        LET recs == recommendations.recs IN
        /\ Len(recs) <= limit
        /\ SortedDescending(recs)
        /\ Len(recs) > 0 =>
              /\ recs[1].score = HighestScored(body_type).score
              /\ body_type = HOURGLASS => recs[1].silhouette = MERMAID
              /\ body_type = PEAR => recs[1].silhouette = A_LINE
              /\ body_type = APPLE => recs[1].silhouette = EMPIRE

C10_TopTwoForHourglass ==
    /\ recommendations.called
    /\ body_type = HOURGLASS /\ limit = 2
    /\ Len(recommendations.recs) = 2
    /\ recommendations.recs[1].silhouette = MERMAID

----------------------------------------------------------------------------
(* Properties of the pose solve *)

JointsInBothSets(js) ==
    js \subseteq (DOMAIN source_joints \cap DOMAIN target_joints)

ZeroLengthSourceBone(c) ==
    VSub(source_joints[c.end], source_joints[c.start]) = ZeroVec

\* C3: whatever joints are present in the template and target sets, the
\* pose solve does not fail for want of a joint (its only failure is at or
\* below a zero-length template bone whose joints are all present); a bone
\* has a rotation only if its start and end joints are in both sets, no
\* other bone has an entry, and a bone without an entry is posed with the
\* identity rotation.
C3_MissingJointsSkipBones ==
    /\ pose_error # "KeyError"
    /\ pose_pc = "failed" =>
          /\ pose_error = "ValueError"
          /\ JointsInBothSets({chains[pose_i].start, chains[pose_i].end})
          /\ \E j \in 1..pose_i :
                /\ JointsInBothSets({chains[j].start, chains[j].end})
                /\ ZeroLengthSourceBone(chains[j])
    /\ DOMAIN rotations \subseteq ChainBones \cup {"root"}
    /\ "root" \in DOMAIN rotations => JointsInBothSets({"hip_l", "hip_r"})
    /\ \A i \in 1..Len(chains) :
          chains[i].bone_name \in DOMAIN rotations =>
              JointsInBothSets({chains[i].start, chains[i].end})
    /\ pose_pc = "done" =>
          \A b \in bone_labels \ DOMAIN rotations : pose_params[b] = ZeroVec

\* The left elbow is missing from the target: the left arm keeps the rest
\* pose while the right arm is rotated.
C3_LeftArmSkipped ==
    /\ pose_pc = "done"
    /\ "elbow_l" \notin DOMAIN target_joints
    /\ {"upperarm01.L", "upperarm01.R"} \subseteq bone_labels
    /\ "upperarm01.L" \notin DOMAIN rotations
    /\ "upperarm01.R" \in DOMAIN rotations
    /\ pose_params["upperarm01.L"] = ZeroVec
    /\ pose_params["upperarm01.R"] # ZeroVec

----------------------------------------------------------------------------
(* Properties of the fit *)

\* A direction that is not along a coordinate axis.
OffLattice == <<-98, -98, -98>>

\* Rotation.from_rotvec(rv) applied to an axis direction v, for rv along a
\* coordinate axis: a rotation by 0, 90 or 180 degrees is a lattice
\* rotation; one by 45 or 135 degrees fixes v on its axis and takes any
\* other axis direction off the lattice.
ApplyRotvec(rv, v) ==
    CASE rv = NaNVec \/ v = NaNVec -> NaNVec
      [] rv # NaNVec /\ v # NaNVec /\ \A i \in 1..3 : rv[i] % 2 = 0 ->
            MatVec(FromRotvec(rv), v)
      [] rv # NaNVec /\ v # NaNVec /\ AxisParallel(rv)
            /\ \E i \in 1..3 : rv[i] % 2 = 1 ->
            IF Cross(rv, v) = ZeroVec THEN v ELSE OffLattice

\* The returned rotation vector of a bone, which is expressed in the bone's
\* rest frame, applied to a global direction: R_rest R(rv) R_rest^T v.
RotateInRestFrame(bone_name, rv, v) ==
    LET rest == RestBonePoses[bone_name]
        w == ApplyRotvec(rv, MatVec(Transpose(rest), v))
    IN  IF w \in {NaNVec, OffLattice} THEN w ELSE MatVec(rest, w)

SourceDir(c) == UnitDir(VSub(source_joints[c.end], source_joints[c.start]))

TargetDir(c) == UnitDir(VSub(target_joints[c.end], target_joints[c.start]))

SolvedSingleBoneChain(c) ==
    /\ c.parent_bone = NoParent
    /\ c.bone_name \in DOMAIN rotations
    /\ JointsInBothSets({c.start, c.end})

NonDegeneratePair(c) == Cross(SourceDir(c), TargetDir(c)) # ZeroVec

\* C13, as stated: for a single-bone chain with a non-degenerate pair of
\* directions, the returned rotation applied to the source direction gives
\* the target direction, and its axis is perpendicular to both directions.
C13_RotationReproducesTarget ==
    \A j \in 1..Len(chains) :
        LET c == chains[j] IN
        (SolvedSingleBoneChain(c) /\ NonDegeneratePair(c)) =>
            LET rv == rotations[c.bone_name]
                axis == MatVec(RestBonePoses[c.bone_name], rv)
            IN  /\ RotateInRestFrame(c.bone_name, rv, SourceDir(c)) = TargetDir(c)
                /\ Dot(axis, SourceDir(c)) = 0
                /\ Dot(axis, TargetDir(c)) = 0

\* The right thigh, raised sideways by 90 degrees, comes back with half of
\* that rotation; the left upper arm, lowered by 90 degrees, with all of it.
C13_LegAbductionHalved ==
    /\ pose_pc = "done"
    /\ source_joints = RestJoints
    /\ target_joints = PoseArmsDown
    /\ {"upperleg01.R", "upperarm01.L"} \subseteq DOMAIN rotations
    /\ Abs(rotations["upperleg01.R"][2]) + Abs(rotations["upperleg01.R"][3]) = 1
    /\ RotateInRestFrame("upperleg01.R", rotations["upperleg01.R"],
                         SourceDir(chains[8])) = OffLattice
    /\ RotateInRestFrame("upperarm01.L", rotations["upperarm01.L"],
                         SourceDir(chains[2])) = TargetDir(chains[2])

ZeroLengthTargetBone(c) ==
    VSub(target_joints[c.end], target_joints[c.start]) = ZeroVec

\* Chain j has been through the loop body (the solve may have failed in it).
ChainProcessed(j) ==
    /\ pose_pc # "root"
    /\ \/ j < pose_i
       \/ j = pose_i /\ pose_pc = "failed"
    /\ JointsInBothSets({chains[j].start, chains[j].end})

\* C20, as stated: a bone whose source or target direction has zero norm
\* is treated as aligned: the solve does not fail on it, its rotation is the
\* zero vector, nothing non-finite is produced, and the accumulated delta it
\* hands to its child is the one it received.
C20_ZeroLengthBoneLeftAligned ==
    \A j \in 1..Len(chains) :
        LET c == chains[j] IN
        (ChainProcessed(j) /\ (ZeroLengthSourceBone(c) \/ ZeroLengthTargetBone(c))) =>
            /\ ~(j = pose_i /\ pose_pc = "failed")
            /\ c.bone_name \in DOMAIN rotations => rotations[c.bone_name] = ZeroVec
            /\ c.bone_name \in DOMAIN world_rotations
            /\ world_rotations[c.bone_name] # NaNMat
            /\ world_rotations[c.bone_name] =
                  IF c.parent_bone # NoParent /\ c.parent_bone \in DOMAIN world_rotations
                  THEN world_rotations[c.parent_bone]
                  ELSE Identity

\* The target's left elbow lies on its left shoulder: the left upper arm is
\* given a half turn; the template's right elbow lies on its right shoulder:
\* the right upper arm is given a NaN rotation.
C20_HalfTurnAndNaN ==
    /\ pose_i > 4
    /\ JointsInBothSets({"shoulder_l", "elbow_l", "shoulder_r", "elbow_r"})
    /\ {"upperarm01.L", "upperarm01.R"} \subseteq DOMAIN rotations
    /\ ZeroLengthTargetBone(chains[2])
    /\ ~ZeroLengthSourceBone(chains[2])
    /\ Abs(rotations["upperarm01.L"][1]) + Abs(rotations["upperarm01.L"][2])
          + Abs(rotations["upperarm01.L"][3]) = 4
    /\ world_rotations["upperarm01.L"] # Identity
    /\ ZeroLengthSourceBone(chains[4])
    /\ rotations["upperarm01.R"] = NaNVec
    /\ world_rotations["upperarm01.R"] = NaNMat

\* The rest direction of a solved bone as the solver saw it: pre-rotated by
\* the parent's accumulated delta when the parent has one.
ParentDelta(c) ==
    IF c.parent_bone # NoParent /\ c.parent_bone \in DOMAIN world_rotations
    THEN world_rotations[c.parent_bone]
    ELSE Identity

CurrentDir(c) == MatVec(ParentDelta(c), SourceDir(c))

\* R_local_delta of a solved bone, recovered from the stored accumulated
\* delta R_local_delta @ R_parent_delta.
LocalDelta(c) ==
    MatMul(world_rotations[c.bone_name], Transpose(ParentDelta(c)))

\* Chain j was solved with finite, non-zero directions.
SolvedRegular(j) ==
    /\ ChainProcessed(j)
    /\ ~ZeroLengthSourceBone(chains[j])
    /\ ~ZeroLengthTargetBone(chains[j])
    /\ ParentDelta(chains[j]) # NaNMat
    /\ chains[j].bone_name \in DOMAIN world_rotations

HalfTurnAbout(rv_global, dir) ==
    /\ AxisParallel(rv_global)
    /\ Abs(rv_global[1]) + Abs(rv_global[2]) + Abs(rv_global[3]) = 4
    /\ Dot(rv_global, dir) = 0

\* C21: for a bone whose pre-rotated rest direction is parallel to its
\* target direction the solved local correction is the identity (and the
\* returned rotation the zero vector); for one whose directions are
\* antiparallel it is a rotation by 180 degrees about a unit axis
\* orthogonal to the rest direction, which maps that direction onto the
\* target, whichever coordinate axis the direction lies along.
C21_ParallelIdentityAntiparallelHalfTurn ==
    \A j \in 1..Len(chains) :
        SolvedRegular(j) =>
            LET c == chains[j] IN
            /\ CurrentDir(c) = TargetDir(c) =>
                  /\ LocalDelta(c) = Identity
                  /\ c.bone_name \in DOMAIN rotations =>
                        rotations[c.bone_name] = ZeroVec
            /\ CurrentDir(c) = VScale(-1, TargetDir(c)) =>
                  /\ \A rv \in AsRotvec(LocalDelta(c)) :
                        HalfTurnAbout(rv, CurrentDir(c))
                  /\ MatVec(LocalDelta(c), CurrentDir(c)) = TargetDir(c)

\* The turned pose: the left upper arm lies along x and the neck along z,
\* each opposite to its target; both get a half turn, and the left forearm,
\* already brought into line by its parent, gets none.
C21_HalfTurnsAlongXAndZ ==
    /\ pose_pc = "done"
    /\ source_joints = RestJoints
    /\ target_joints = PoseTurned
    /\ {"neck01", "upperarm01.L", "lowerarm01.L"} \subseteq DOMAIN rotations
    /\ SourceDir(chains[2]) = Vec(1, 0, 0)
    /\ HalfTurnAbout(MatVec(RestBonePoses["upperarm01.L"], rotations["upperarm01.L"]),
                     Vec(1, 0, 0))
    /\ SourceDir(chains[1]) = Vec(0, 0, 1)
    /\ HalfTurnAbout(MatVec(RestBonePoses["neck01"], rotations["neck01"]),
                     Vec(0, 0, 1))
    /\ rotations["lowerarm01.L"] = ZeroVec

\* Index in the chain table of the chain that solves bone b, 0 if none.
ChainOf(b) ==
    IF \E i \in 1..Len(chains) : chains[i].bone_name = b
    THEN CHOOSE i \in 1..Len(chains) : chains[i].bone_name = b
    ELSE 0

HasParent(j) == chains[j].parent_bone # NoParent

\* C22: in the chain table a bone's parent comes before it; when a child
\* has been solved, a parent that was solved has its accumulated delta
\* stored; the child's correction is solved from the rest direction
\* pre-rotated by that delta (a turn about the axis perpendicular to the
\* pre-rotated and the target direction), and the child's accumulated delta
\* is that correction composed with the parent's, so that it takes the
\* child's rest direction onto its target direction.
C22_ParentBeforeChild ==
    \A j \in 1..Len(chains) :
        HasParent(j) =>
            LET c == chains[j]
                i == ChainOf(c.parent_bone)
            IN  /\ i \in 1..(j - 1)
                /\ (ChainProcessed(j) /\ ChainProcessed(i)) =>
                      c.parent_bone \in DOMAIN world_rotations
                /\ (SolvedRegular(j) /\ Cross(CurrentDir(c), TargetDir(c)) # ZeroVec) =>
                      /\ MatVec(LocalDelta(c), CurrentDir(c)) = TargetDir(c)
                      /\ MatVec(LocalDelta(c), Cross(CurrentDir(c), TargetDir(c)))
                            = Cross(CurrentDir(c), TargetDir(c))
                      /\ world_rotations[c.bone_name]
                            = MatMul(LocalDelta(c), ParentDelta(c))
                      /\ MatVec(world_rotations[c.bone_name], SourceDir(c))
                            = TargetDir(c)

\* Arms down, forearms forward: the left forearm is solved after the left
\* upper arm, from a rest direction its parent has already turned downwards.
C22_ForearmAfterUpperArm ==
    /\ pose_pc = "done"
    /\ source_joints = RestJoints
    /\ target_joints = PoseArmsDown
    /\ {"upperarm01.L", "lowerarm01.L"} \subseteq DOMAIN world_rotations
    /\ world_rotations["upperarm01.L"] # Identity
    /\ SourceDir(chains[3]) = Vec(1, 0, 0)
    /\ CurrentDir(chains[3]) = Vec(0, 0, -1)
    /\ TargetDir(chains[3]) = Vec(0, 1, 0)
    /\ LocalDelta(chains[3]) # world_rotations["lowerarm01.L"]

\* The joints of chain j and of its ancestors.
RECURSIVE OwnChainJoints(_)
OwnChainJoints(j) ==
    {chains[j].start, chains[j].end}
        \cup (IF HasParent(j) /\ ChainOf(chains[j].parent_bone) # 0
              THEN OwnChainJoints(ChainOf(chains[j].parent_bone))
              ELSE {})

OwnSource(j) == Restrict(source_joints, OwnChainJoints(j) \cap DOMAIN source_joints)

OwnTarget(j) == Restrict(target_joints, OwnChainJoints(j) \cap DOMAIN target_joints)

\* world_rotations as the loop leaves it when only the joints of chain j and
\* of its ancestors are given.
RECURSIVE OwnWorld(_)
OwnWorld(j) ==
    LET c == chains[j]
        above == IF HasParent(j) /\ ChainOf(c.parent_bone) # 0
                 THEN OwnWorld(ChainOf(c.parent_bone))
                 ELSE EmptyMap
    IN  IF ChainSkipped(c, OwnSource(j), OwnTarget(j)) THEN above
        ELSE Put(above, c.bone_name,
                 SolveBone(c, OwnSource(j), OwnTarget(j), above).world)

\* The rotations the solve can return for the bone of chain j when only the
\* joints of its own chain are given.
OwnRotations(j) ==
    LET c == chains[j]
        above == IF HasParent(j) /\ ChainOf(c.parent_bone) # 0
                 THEN OwnWorld(ChainOf(c.parent_bone))
                 ELSE EmptyMap
    IN  LocalRotvec(c.bone_name,
                    SolveBone(c, OwnSource(j), OwnTarget(j), above).delta,
                    RestBonePoses)

\* Chain j alone is solved without a skip and without a NaN.
SolvableAlone(j) ==
    LET c == chains[j]
        above == IF HasParent(j) /\ ChainOf(c.parent_bone) # 0
                 THEN OwnWorld(ChainOf(c.parent_bone))
                 ELSE EmptyMap
    IN  /\ ~ChainSkipped(c, source_joints, target_joints)
        /\ c.bone_name \in bone_labels
        /\ SolveBone(c, OwnSource(j), OwnTarget(j), above).delta # NaNMat

PoseSolveEnded == pose_pc \in {"apply", "done", "failed"}

C23_IndependentWhenReturned ==
    pose_pc \in {"apply", "done"} =>
        \A j \in 1..Len(chains) :
            SolvableAlone(j) =>
                /\ chains[j].bone_name \in DOMAIN rotations
                /\ rotations[chains[j].bone_name] \in OwnRotations(j)

FitEnded == fit.pc \in {"done", "failed"}

\* C1, as stated: a fit given no user height completes without raising and
\* returns its measurements unscaled (scale factor 1).
C1_NoHeightCompletesUnscaled ==
    (FitEnded /\ ~Truthy(fit.user_height_cm) /\ fit.n_vertices > 0) =>
        /\ fit.pc = "done"
        /\ fit.error = "none"
        /\ fit.result.scale = <<1, 1>>

C1_NoHeightRaises ==
    /\ fit.pc = "failed"
    /\ ~Truthy(fit.user_height_cm)
    /\ fit.n_vertices > 0
    /\ fit.error = "UnboundLocalError"

\* C2, as stated: a fit on a mesh with zero vertices aborts with
\* InvalidMeshError and with no other kind of error.
C2_EmptyMeshInvalidMeshError ==
    (FitEnded /\ fit.n_vertices = 0) =>
        /\ fit.pc = "failed"
        /\ fit.error = "InvalidMeshError"

C2_EmptyMeshValueError ==
    /\ fit.pc = "failed"
    /\ fit.n_vertices = 0
    /\ fit.error = "ValueError"

\* C4, as stated: after any fit every field of the returned phenotype
\* vector lies in [0, 1], whatever the external fitter returns.
C4_PhenotypesInUnitRange ==
    fit.pc = "done" => \A k \in PhenotypeNames : fit.best_params[k] \in 0..100

C4_FitterValueReturned ==
    /\ fit.pc = "done"
    /\ fit.best_params["weight"] = 120
    /\ fit.initial_phenotypes["weight"] \in 0..100

\* C5, as stated: over all fits of one process the template-model handle is
\* created at most once, and a handle once created is never replaced.
C5_ModelCreatedOnce ==
    /\ models_created <= 1
    /\ \A i \in 1..Len(analyzers), j \in 1..Len(analyzers) :
          (analyzers[i]._model # 0 /\ analyzers[j]._model # 0) =>
              analyzers[i]._model = analyzers[j]._model

C5_TwoHandles ==
    /\ Len(analyzers) >= 2
    /\ analyzers[1]._model = 1
    /\ analyzers[2]._model = 2
    /\ models_created = 2

\* C11: the confidence of a returned fit is exactly 1 - pve_mm/50 clamped
\* into [0, 1]: it lies in [0, 1], is 1 at zero residual, 0 at 50 mm or
\* more, and no larger residual gives a higher confidence.
C11_ConfidenceClampedFromResidual ==
    fit.pc = "done" =>
        LET pve == fit.result.pve_mm
            c == fit.result.confidence
        IN  /\ c \in 0..100
            /\ 50 * c = Max2(0, Min2(5000, 5000 - 100 * pve))
            /\ (pve = 0 => c = 100)
            /\ (pve >= 50 => c = 0)
            /\ \A q \in PveCases : q >= pve => confidence_of(q) <= c

C11_ZeroAtFiftyMillimetres ==
    /\ fit.pc = "done"
    /\ fit.result.pve_mm = 50
    /\ fit.result.confidence = 0
    /\ fit.error = "none"

FallbackTaken ==
    \/ fit.pelvis_fallback
    \/ fit.landmarks.circumferences = NoCircumferences
    \/ ~Truthy(fit.user_height_cm)

\* C12, as stated: a fit in which a fallback was taken (a slice without a
\* closed loop replaced by a heuristic position, or no user height) runs to
\* completion and reports a confidence below the one the same residual
\* gives without a fallback.
C12_FallbackLowersConfidence ==
    (FitEnded /\ fit.n_vertices > 0 /\ FallbackTaken) =>
        /\ fit.pc = "done"
        /\ \/ fit.result.confidence < confidence_of(fit.result.pve_mm)
           \/ confidence_of(fit.result.pve_mm) = 0

C12_FallbackSameConfidence ==
    /\ fit.pc = "done"
    /\ fit.pelvis_fallback
    /\ fit.result.pve_mm = 20
    /\ fit.result.confidence = 60

FitterCalled == fit.pc \in {"measure", "done"}

\* C15: in the call to the external fitter, muscle is frozen always, height
\* whenever the caller supplied a height, gender exactly when the caller
\* supplied a gender hint, and age, weight and proportions never; a frozen
\* field comes back with its initial value.
C15_FrozenFields ==
    FitterCalled =>
        /\ "muscle" \in fit.excluded
        /\ (Truthy(fit.user_height_cm) => "height" \in fit.excluded)
        /\ ("gender" \in fit.excluded <=> fit.user_gender # "None")
        /\ fit.excluded \subseteq {"muscle", "height", "gender"}
        /\ fit.excluded \subseteq PhenotypeNames
        /\ \A k \in fit.excluded : fit.best_params[k] = fit.initial_phenotypes[k]

C15_GenderOptimisedWithoutHint ==
    /\ fit.pc = "done"
    /\ fit.user_gender = "None"
    /\ fit.excluded = {"height", "muscle"}
    /\ fit.best_params["gender"] # fit.initial_phenotypes["gender"]

InitialGuessMade ==
    fit.pc \in {"scale_mesh", "anny_joints", "rest_bone_poses", "compute_pose",
                "topology_target", "regressor", "measure", "done"}

\* C16, as stated: the gender field of the initial guess follows the hint
\* when there is one (1 for female, 0 for male) and is a neutral value,
\* neither extreme, when there is none.
C16_GenderFromHintElseNeutral ==
    InitialGuessMade =>
        /\ (Lower(fit.user_gender) = "female" => fit.initial_phenotypes["gender"] = 100)
        /\ (Lower(fit.user_gender) = "male" => fit.initial_phenotypes["gender"] = 0)
        /\ (fit.user_gender = "None" => fit.initial_phenotypes["gender"] \notin {0, 100})

C16_NoHintMaleExtreme ==
    /\ fit.pc = "scale_mesh"
    /\ fit.user_gender = "None"
    /\ fit.initial_phenotypes["gender"] = 0

Lengths == {"height_cm", "bust_cm", "waist_cm", "hips_cm"}

TemplateLength(t, f) ==
    IF f = "height_cm" THEN t.height
    ELSE IF f = "bust_cm" THEN t.bust
    ELSE IF f = "waist_cm" THEN t.waist
    ELSE t.hips

HeightFactors == {2, 3}

CalibratedFit == fit.pc = "done" /\ Truthy(fit.user_height_cm)

\* Every length of the result is the template's value times
\* user height / template height.
LengthsScaled ==
    \A f \in Lengths :
        FracEq(fit.result[f],
               <<TemplateLength(fit.result.template, f) * fit.user_height_cm,
                 fit.result.template.height>>)

\* The ratio of any two lengths is the ratio of the template's values.
LengthRatiosKept ==
    \A f \in Lengths, g \in Lengths :
        fit.result[f][1] * fit.result[g][2] * TemplateLength(fit.result.template, g)
            = fit.result[g][1] * fit.result[f][2] * TemplateLength(fit.result.template, f)

\* The same template under k times the user height: every length is k
\* times the reported one.
LengthsLinearInUserHeight ==
    \A k \in HeightFactors, f \in Lengths :
        LET t == fit.result.template
            again == Scaled(TemplateLength(t, f),
                            calibration_scale(k * fit.user_height_cm, t.height))
        IN  FracEq(again, <<k * fit.result[f][1], fit.result[f][2]>>)

\* C19, as stated: with a user height, every reported absolute measurement
\* (the lengths and the weight) is the template's value times user height /
\* template height, the reported height is the user height, and ratios of
\* measurements do not depend on the user height.
C19_EveryMeasurementScaledAlike ==
    CalibratedFit =>
        /\ LengthsScaled
        /\ FracEq(fit.result.weight_kg,
                  <<fit.result.template.mass * fit.user_height_cm,
                    fit.result.template.height>>)
        /\ FracEq(fit.result.height_cm, <<fit.user_height_cm, 1>>)
        /\ LengthRatiosKept

\* C19, amended: with a user height, the four lengths (height, bust, waist,
\* hips) are the template's values times user height / template height, the
\* reported height is the user height, ratios of lengths do not depend on
\* the user height, and k times the user height gives k times each length;
\* the weight is the template's mass times the cube of that factor.
C19_LengthsScaledWeightCubed ==
    CalibratedFit =>
        /\ LengthsScaled
        /\ FracEq(fit.result.height_cm, <<fit.user_height_cm, 1>>)
        /\ LengthRatiosKept
        /\ LengthsLinearInUserHeight
        /\ LET g == GCD(fit.user_height_cm, fit.result.template.height)
               n == fit.user_height_cm \div g
               d == fit.result.template.height \div g
           IN  fit.result.weight_kg
                   = <<fit.result.template.mass * n * n * n, d * d * d>>

C19_TallerThanTemplate ==
    /\ fit.pc = "done"
    /\ fit.user_height_cm = 210
    /\ fit.result.template.height = 150
    /\ fit.result.template.mass = 50
    /\ FracEq(fit.result.height_cm, <<210, 1>>)
    /\ FracEq(fit.result.waist_cm, <<91, 1>>)
    /\ ~FracEq(fit.result.weight_kg, <<70, 1>>)

\* While the loop is still running after a pass, the mean distance of that
\* pass was not below the threshold; a return before the cap follows a pass
\* whose mean distance was below it.
StopsEarlyExactlyBelowThreshold ==
    /\ (icp.pc = "loop" /\ icp.i > 0) =>
          (icp.mean_distance = NaNDistance \/ icp.mean_distance >= 10)
    /\ (icp.pc = "returned" /\ icp.i < max_iterations) =>
          (icp.mean_distance # NaNDistance /\ icp.mean_distance < 10)

\* C14: the alignment loop never makes more than 50 passes, stops in the
\* pass whose mean nearest-neighbour distance is below 0.001 and in no
\* earlier one, and every call ends by itself (returns or raises).
C14_IcpTerminatesWithinCap ==
    /\ [](icp.i <= max_iterations /\ StopsEarlyExactlyBelowThreshold)
    /\ (icp.pc = "loop") ~> (icp.pc \in {"returned", "raised"})

C14_StoppedEarly ==
    /\ icp.pc = "returned"
    /\ icp.i = 3
    /\ icp.mean_distance = 9

PelvisAtOrigin(joints) == "pelvis" \in DOMAIN joints /\ joints["pelvis"] = ZeroVec

\* C17, as stated: when the two joint sets are handed to the pose solver,
\* each has a pelvis entry and it is the origin, whether the target joints
\* came from mesh slices or from a keypoint list of any length.
C17_BothSetsPelvisCentred ==
    prep.pc = "compute_pose" =>
        /\ PelvisAtOrigin(prep.anny_joints)
        /\ PelvisAtOrigin(prep.sam3d_joints)

\* Nine keypoints: both arms are compared with the template's, and the
\* target set has no pelvis and is centred on the mean of the nine points.
C17_NineKeypointsNoPelvis ==
    /\ prep.pc = "compute_pose"
    /\ prep.n_keypoints = 9
    /\ "pelvis" \notin DOMAIN prep.sam3d_joints
    /\ {"shoulder_l", "elbow_l"} \subseteq DOMAIN prep.sam3d_joints
    /\ {"shoulder_l", "elbow_l"} \subseteq DOMAIN prep.anny_joints
    /\ PelvisAtOrigin(prep.anny_joints)

\* C18: at every point of a fit, and when it has returned or failed, the
\* caller's vertex array, face array and keypoint list have not been
\* written to: every in-place operation acts on an array made by the fit.
C18_InputsNeverWritten ==
    /\ \A a \in CallerArrays : prep.writes[a] = 0
    /\ \A a \in LocalArrays : prep.bound[a] \notin CallerArrays

C18_CopiesWritten ==
    /\ prep.pc = "compute_pose"
    /\ prep.z_up
    /\ prep.n_keypoints = NumKeypoints
    /\ prep.writes["transformed"] = 2
    /\ prep.writes["kp_ply_space"] = 1
    /\ prep.writes["kp_final"] = 2
    /\ prep.writes["vertices"] = 0
    /\ prep.writes["keypoints_3d"] = 0


\* C24: no loop within the proximity threshold of a tracked arm position is
\* used for the pelvis, a hip, a knee or an ankle.
C24_NoArmLoopInLegJoints ==
    \A u \in geo.from_loops : ~is_near_arm(u[2], geo.arm_positions)

\* The pelvis, hips and knees are placed from loops away from the arms.
C24_FilteredAboveTheAnkles ==
    \A u \in geo.from_loops :
        u[1] # "ankle" => ~is_near_arm(u[2], geo.arm_positions)

\* Arms hanging straight down, feet below the hands: both ankles are placed
\* on loops within the threshold of the tracked arm positions.
C24_AnklesFromLoopsNearArms ==
    /\ geo.pc = "done"
    /\ geo.arm_positions = [l |-> {<<-180, 0>>}, r |-> {<<180, 0>>}]
    /\ {"ankle_l", "ankle_r"} \subseteq DOMAIN geo.joints
    /\ geo.joints["ankle_l"] = <<-150, 0, 5>>
    /\ geo.joints["ankle_r"] = <<150, 0, 5>>
    /\ <<"ankle", <<-150, 0>>>> \in geo.from_loops
    /\ is_near_arm(<<-150, 0>>, geo.arm_positions)


\* The height nudge of the neck (0.05 m), in halves of the lattice unit.
neck_nudge == 1

KeypointJointsExtracted == prep.pc = "scale_to_height" /\ prep.n_keypoints > 0

\* C25: joints extracted from keypoints: the pelvis is the midpoint of the
\* hips, the neck is the midpoint of the shoulders raised by the nudge, and
\* a joint whose index is beyond the list is left out without an error.
C25_DerivedJointsFromNamedJoints ==
    KeypointJointsExtracted =>
        LET j == prep.sam3d_joints IN
        /\ prep.error = "none"
        /\ \A name \in DOMAIN keypoint_mapping \ {"neck"} :
              name \in DOMAIN j <=> keypoint_mapping[name] < prep.n_keypoints
        /\ {"hip_l", "hip_r"} \subseteq DOMAIN j =>
              /\ "pelvis" \in DOMAIN j
              /\ VScale(2, j["pelvis"]) = VAdd(j["hip_l"], j["hip_r"])
        /\ {"shoulder_l", "shoulder_r"} \subseteq DOMAIN j =>
              /\ "neck" \in DOMAIN j
              /\ VScale(2, j["neck"])
                    = VAdd(VAdd(j["shoulder_l"], j["shoulder_r"]), Vec(0, 0, neck_nudge))

\* The same without the neck: named joints by index, pelvis between the hips.
C25_NamedJointsAndPelvis ==
    KeypointJointsExtracted =>
        LET j == prep.sam3d_joints IN
        /\ prep.error = "none"
        /\ \A name \in DOMAIN keypoint_mapping :
              name \in DOMAIN j <=> keypoint_mapping[name] < prep.n_keypoints
        /\ {"hip_l", "hip_r"} \subseteq DOMAIN j =>
              /\ "pelvis" \in DOMAIN j
              /\ VScale(2, j["pelvis"]) = VAdd(j["hip_l"], j["hip_r"])

\* A full list of 70 keypoints: the neck is keypoint 69 as it came, level
\* with the shoulders, not their midpoint raised by the nudge.
C25_NeckReadFromKeypoint ==
    /\ KeypointJointsExtracted
    /\ prep.n_keypoints = NumKeypoints
    /\ {"shoulder_l", "shoulder_r", "neck"} \subseteq DOMAIN prep.sam3d_joints
    /\ prep.sam3d_joints["neck"] = prep.sam3d_keypoints_all[keypoint_mapping["neck"] + 1]
    /\ 2 * prep.sam3d_joints["neck"][3]
         = prep.sam3d_joints["shoulder_l"][3] + prep.sam3d_joints["shoulder_r"][3]
AnchorEnded == anchor.pc \in {"done", "failed"}

HasLoop(sl) == sl.outcome = "path" /\ sl.loops # << >>

\* C26: the pelvis anchor is the centre of the largest loop of the slice;
\* when slicing fails, the mean of the vertices near that height; when
\* there are none either, the centroid of the whole mesh; and a failed
\* slice never stops the fit.
C26_ThreeStepFallback ==
    AnchorEnded =>
        /\ anchor.error = "none"
        /\ anchor.pc = "done"
        /\ HasLoop(anchor.slice) =>
              anchor.mesh_pelvis = largest_loop(anchor.slice.loops).centre
        /\ (~HasLoop(anchor.slice) /\ anchor.band_mean # <<"None">>) =>
              anchor.mesh_pelvis = anchor.band_mean
        /\ (~HasLoop(anchor.slice) /\ anchor.band_mean = <<"None">>) =>
              anchor.mesh_pelvis = <<0, 0>>

\* What the normalisation does: the largest loop, else the mesh centroid.
C26_LoopElseCentroid ==
    anchor.pc = "done" =>
        /\ HasLoop(anchor.slice) =>
              anchor.mesh_pelvis = largest_loop(anchor.slice.loops).centre
        /\ ~HasLoop(anchor.slice) => anchor.mesh_pelvis = <<0, 0>>
        /\ anchor.offset = <<anchor.rough_center[1] + anchor.mesh_pelvis[1],
                             anchor.rough_center[2] + anchor.mesh_pelvis[2]>>

\* A slice without a loop on a mesh with vertices near the pelvis level,
\* off the centroid: the anchor is the centroid, not their mean.
C26_VertexMeanSkipped ==
    /\ anchor.pc = "done"
    /\ anchor.slice.outcome \in {"none", "empty"}
    /\ anchor.band_mean = <<3, 1>>
    /\ anchor.mesh_pelvis = <<0, 0>>
    /\ anchor.offset = anchor.rough_center
\* The loops of the slice with at least three points.
Eligible == {k \in 1..Len(circ.loops) : Len(circ.loops[k]) >= 3}

\* Squared distance of the centre of loop k from the vertical axis, times
\* the squared number of its points.
CentreOff(k) ==
    LET total == SumXY(circ.loops[k])
    IN  total[1] * total[1] + total[2] * total[2]

NoFartherThan(a, b) ==
    CentreOff(a) * Len(circ.loops[b]) * Len(circ.loops[b])
        <= CentreOff(b) * Len(circ.loops[a]) * Len(circ.loops[a])

\* The lengths of the edges of loop k, the closing edge included.
EdgeLengths(k) ==
    LET loop == circ.loops[k]
        n == Len(loop)
    IN  [e \in 1..n |->
            Norm(<<loop[e][1] - loop[IF e = n THEN 1 ELSE e + 1][1],
                   loop[e][2] - loop[IF e = n THEN 1 ELSE e + 1][2]>>)]

RECURSIVE SumSeq(_)
SumSeq(q) == IF q = << >> THEN 0 ELSE Head(q) + SumSeq(Tail(q))

\* C27: the circumference is the summed edge length, closing edge
\* included, of one loop: a loop with at least three points whose centre
\* is no farther from the vertical axis than that of any other such loop;
\* it is 0 when the slice has no such loop.
C27_PerimeterOfMostCentralLoop ==
    circ.pc = "done" =>
        IF circ.path_none \/ Eligible = {}
        THEN circ.result = 0
        ELSE \E k \in Eligible :
                /\ \A other \in Eligible : NoFartherThan(k, other)
                /\ circ.result = SumSeq(EdgeLengths(k))

\* A slice with an arm, a sliver on the axis and an off-axis torso
\* triangle: the result is the triangle's 4 + 3 + 5, neither the arm's
\* perimeter nor a sum over loops.
C27_TorsoAmongArmAndSliver ==
    /\ circ.pc = "done"
    /\ circ.loops = << << <<9, -3>>, <<11, -3>>, <<11, 3>>, <<9, 3>> >>,
                       << <<0, 0>>, <<1, 0>> >>,
                       << <<0, 0>>, <<4, 0>>, <<4, 3>> >> >>
    /\ circ.result = 12
\* C28: the type the analysis service attaches to a fit, classify_body_type
\* of services/body_type.py on the fitted bust, waist and hips in inches,
\* is the type the ratio rules give for the same measurements.
C28_ServiceTypeIsRatioType ==
    body_types["services"] # "none" =>
        body_types["services"] = RatioRuleAsStated(bust, waist, hips)

\* Bust 34, waist 26, hips 37 inches: bust/hips = 0.92 and waist/bust = 0.76
\* make an Hourglass by the ratio rules; the service, which asks for bust
\* and hips within one inch, returns Rectangle.
C28_HourglassByRatioRectangleByService ==
    /\ bust = Inches(34) /\ waist = Inches(26) /\ hips = Inches(37)
    /\ RatioRuleAsStated(bust, waist, hips) = HOURGLASS
    /\ body_types["services"] = RECTANGLE
\* The positions of a fit in the order of the code: the regressor load,
\* orientation and pelvis centring, landmarks, joints, the heuristic
\* estimate, height scaling, the template's joints, its rest bone poses,
\* the pose solve, alignment and closest-point target, the fitter, the
\* measurement.
FitStages ==
    <<"ensure_regressor", "normalize", "landmarks", "joints",
      "initial_phenotypes", "scale_mesh", "anny_joints", "rest_bone_poses",
      "compute_pose", "topology_target", "regressor", "measure", "done">>

\* A step of a fit moves to the next stage, fails, or returns.
StageStep ==
    fit.pc' # fit.pc =>
        \/ fit.pc = "idle" /\ fit.pc' = FitStages[1]
        \/ \E k \in 1..(Len(FitStages) - 1) :
              fit.pc = FitStages[k] /\ fit.pc' \in {FitStages[k + 1], "failed"}
        \/ fit.pc \in {"done", "failed"} /\ fit.pc' = "idle"

\* The fitter was started from the heuristic estimate, and the result was
\* measured on the template of the fitter's phenotypes.
FitDataFlow ==
    /\ fit.pc \in {"measure", "done"} => fit.fitter_start = fit.initial_phenotypes
    /\ fit.pc = "done" => fit.result.measured_from = fit.best_params

\* C29: a fit goes through its stages in the stated order, each once, up
\* to its result or its failure; the fitter starts from the heuristic
\* estimate and the measurements are those of the fitter's phenotypes.
C29_StagesInOrderOnce == [][StageStep]_vars /\ []FitDataFlow

\* A finished fit in which the fitter moved a phenotype away from the
\* estimate: the template measured is the fitter's.
C29_MeasuredAfterFitterMoved ==
    /\ fit.pc = "done"
    /\ fit.best_params # fit.initial_phenotypes
    /\ fit.fitter_start = fit.initial_phenotypes
    /\ fit.result.measured_from = fit.best_params
    /\ fit.result.measured_from # fit.initial_phenotypes
\* The status becomes COMPLETED or FAILED only in a step of
\* update_request_result.
FinalStatusOnlyByUpdate ==
    (/\ tryon.request.status' # tryon.request.status
     /\ tryon.request.status' \in {"COMPLETED", "FAILED"})
        => /\ tryon.pc = "update_request_result"
           /\ tryon.pc' = "returned"
           /\ tryon.raised_by' = "none"

\* A run in which an activity raised returns success = False, raises
\* nothing, and leaves the request PENDING or PROCESSING.
RaisedRunReturnsFailure ==
    (tryon.pc = "returned" /\ tryon.raised_by # "none") =>
        /\ tryon.output.success = FALSE
        /\ ~tryon.propagated
        /\ tryon.request.status
              = (IF tryon.raised_by = "upload_person_image" THEN "PENDING"
                 ELSE "PROCESSING")
        /\ tryon.request.error_message = "None"

\* C30: the request becomes COMPLETED or FAILED only by the final
\* update_request_result; when an activity raises, run() returns
\* success = False without raising and the request keeps its status.
C30_StatusSetOnlyByFinalUpdate ==
    [][FinalStatusOnlyByUpdate]_vars /\ []RaisedRunReturnsFailure

\* update_request_result itself raised after a successful generation: the
\* run reports failure and the request is still PROCESSING.
C30_UpdateRaisedStillProcessing ==
    /\ tryon.pc = "returned"
    /\ tryon.raised_by = "update_request_result"
    /\ tryon.try_on_result.success = TRUE
    /\ tryon.output.success = FALSE
    /\ tryon.request.status = "PROCESSING"
====
